---- MODULE Spec2Model ----
(***************************************************************************)
(* State-machine model of v4l2-mpp's stream relay                          *)
(* (src/apps/stream-http/main.py) and of its JSON-RPC engine               *)
(* (src/apps/v4l2-ctrls/jsonrpc_server.py).                                *)
(*                                                                         *)
(* Bytes are integers 0..255 and byte strings are sequences of them.       *)
(* Python indices are kept 0-based in find/slice, as in the source.        *)
(***************************************************************************)
EXTENDS Integers, Sequences, FiniteSets, TLC

\* ------------------------------------------------------------------ bounds

\* HTTP requests served concurrently (ThreadingHTTPServer: one thread each).
Requests == {1, 2}
\* Chunks one request of Spec may receive from its upstream.
MaxRecvs == 2
\* Upstream bytes the request of SpecExtract may receive, and its chunk size.
MaxBytes == 5
MaxChunk == 2
\* Connections the JSON-RPC serving loop accepts, and recv calls on each.
MaxConns == 2
MaxReqChunks == 2
\* Calls made on the one JSONRPCClient instance.
MaxCalls == 2
MaxSaves == 2
MaxSets == 2

\* ------------------------------------------------------------ byte strings

SOI == <<255, 216>>
EOI == <<255, 217>>
\* b'--frame\r\nContent-Type: image/jpeg\r\n\r\n'
PartHeader ==
  <<45, 45, 102, 114, 97, 109, 101, 13, 10,
    67, 111, 110, 116, 101, 110, 116, 45, 84, 121, 112, 101, 58, 32,
    105, 109, 97, 103, 101, 47, 106, 112, 101, 103, 13, 10, 13, 10>>
\* b'\r\n'
PartTrailer == <<13, 10>>

Min(S) == CHOOSE x \in S : \A y \in S : x <= y

\* bytes.find(sub, start): lowest 0-based index >= start where sub occurs, or -1.
find(b, sub, start) ==
  LET hits == {i \in start..(Len(b) - Len(sub)) :
                 \A k \in 1..Len(sub) : b[i + k] = sub[k]}
  IN  IF hits = {} THEN -1 ELSE Min(hits)

\* b[lo:hi] for 0 <= lo, 0 <= hi.
slice(b, lo, hi) ==
  IF lo >= Len(b) \/ hi <= lo THEN <<>>
  ELSE SubSeq(b, lo + 1, IF hi < Len(b) THEN hi ELSE Len(b))

\* b[lo:]
slice_from(b, lo) == slice(b, lo, Len(b))

\* b''.join(chunks)
RECURSIVE concat(_)
concat(chunks) ==
  IF chunks = <<>> THEN <<>> ELSE Head(chunks) \o concat(Tail(chunks))

\* buf[-1:] if buf else b''
last_byte(b) == IF Len(b) = 0 THEN <<>> ELSE <<b[Len(b)]>>

\* ------------------------------------------------------- read_jpeg_frames

\* Mutant: the whole buffer is dropped when no start marker is found.
keep_no_start_drop_all(b) == <<>>

\* Mutant: the whole buffer is kept when no start marker is found.
keep_no_start_all(b) == b

\* The buffer kept when no start marker is found (line 36).
keep_no_start(b) == last_byte(b)

\* Mutant: only the last byte is kept when the end marker is still to come.
keep_from_start_last_byte(b, start) == last_byte(b)

\* The buffer kept when a start marker but no end marker is found (line 40).
keep_from_start(b, start) == slice_from(b, start)

\* Mutant: the frame is cut from the beginning of the buffer.
frame_of_from_zero(b, start, e) == slice(b, 0, e + 2)

\* The frame yielded (line 42) and the buffer kept on resumption (line 43).
frame_of(b, start, e) == slice(b, start, e + 2)
keep_after_frame(b, e) == slice_from(b, e + 2)

\* The inner `while True` loop from its top until it yields or breaks:
\* [yield |-> TRUE, frame, end, buf] at the yield of line 42 (buf still
\* untrimmed), [yield |-> FALSE, buf] at a break (lines 37, 41).
scan(b) ==
  LET start == find(b, SOI, 0)
  IN  IF start = -1
      THEN [yield |-> FALSE, frame |-> <<>>, end |-> -1, buf |-> keep_no_start(b)]
      ELSE LET e == find(b, EOI, start + 2)
           IN  IF e = -1
               THEN [yield |-> FALSE, frame |-> <<>>, end |-> -1,
                     buf |-> keep_from_start(b, start)]
               ELSE [yield |-> TRUE, frame |-> frame_of(b, start, e), end |-> e,
                     buf |-> b]

\* ------------------------------------------------------------------- state

VARIABLES
  jpeg_sock, mjpeg_sock, h264_sock,  \* CameraHandler class attributes
  path,       \* path[r]: the request's path, "" before it arrives
  pc,         \* pc[r]: where the handler thread of request r stands
  status,     \* status[r]: status lines sent to the client, in order
  ctype,      \* ctype[r]: Content-Type header sent ("" if none)
  body,       \* body[r]: bytes that reached the client after the headers
  flushed,    \* flushed[r]: Len(body[r]) at each completed wfile.flush()
  sock,       \* sock[r]: upstream socket: "none", "open", "closed"
  received,   \* received[r]: the chunks recv returned, in arrival order
  buf,        \* buf[r]: read_jpeg_frames' accumulation buffer
  end,        \* end[r]: read_jpeg_frames' local `end` while suspended at yield
  frames,     \* frames[r]: frames yielded by read_jpeg_frames, in order
  chunk,      \* chunk[r]: the loop variable being written (chunk or frame)
  exc,        \* exc[r]: exception raised in the request, "" if none
  raised_by,  \* raised_by[r]: the call that raised it
  outcome     \* outcome[r]: how the handler ended, "" while running

httpVars == <<jpeg_sock, mjpeg_sock, h264_sock, path, pc, status, ctype, body,
              flushed, sock, received, buf, end, frames, chunk, exc, raised_by,
              outcome>>

VARIABLES
  methods,    \* JSONRPCServer.methods: sequence of <<name, handler>> pairs
  srv_pc,     \* where the thread that owns the JSONRPCServer stands
  accepted,   \* connections sock.accept() has returned so far
  conn,       \* the latest connection: "none", "open", "closed"
  data,       \* run's local `data`: the chunks conn.recv returned
  request,    \* the request handle_request was last called with
  response,   \* the response last built
  calls,      \* handler invocations of that call: <<method, argument>>
  wire,       \* lines written to the latest connection, in order
  rpc_exc,    \* exception caught by run's `except Exception`, "" if none
  io_error,   \* whether a recv or sendall on the latest connection raised
  served      \* per closed earlier connection: lines written, exception

rpcVars == <<methods, srv_pc, accepted, conn, data, request, response, calls,
             wire, rpc_exc, io_error, served>>

VARIABLES
  lsock,      \* run's listening socket: "none", "open", "listening", "closed"
  sock_file,  \* the file at socket_path: "absent", "stale", "bound"
  clients     \* connections made to socket_path so far, in order: their kind

lsnVars == <<lsock, sock_file, clients>>

VARIABLES
  request_id,   \* JSONRPCClient.request_id
  cli_pc,       \* where the caller of JSONRPCClient.call stands
  cli_socks,    \* one entry per socket call() created: "open" or "closed"
  cli_params,   \* the params argument of the current call
  cli_request,  \* the request object the current call built
  cli_ids,      \* the id of the request of each call so far, in order
  cli_outcome   \* how the latest call ended: <<"return", v>>, <<"raise", ..>>

cliVars == <<request_id, cli_pc, cli_socks, cli_params, cli_request, cli_ids,
             cli_outcome>>

VARIABLES
  state_dir,    \* whether the directory of ControlPersistence.state_file exists
  state_file,   \* the state file: <<"absent">> or what it holds
  per_saved,    \* the mappings save() wrote since the file was last absent or
                \* spoilt, oldest first
  per_op,       \* the last ControlPersistence call: "", "save", "load", "clear"
  per_loaded,   \* what the last load() returned, <<"none">> before any
  per_exc       \* exception the last ControlPersistence call raised, "" if none

perVars == <<state_dir, state_file, per_saved, per_op, per_loaded, per_exc>>

VARIABLES
  t_pc,         \* t_pc[t]: where thread t stands in JSONRPCClient.call
  t_tmp,        \* t_tmp[t]: the request_id thread t loaded for `+= 1`
  t_ids,        \* t_ids[t]: the ids of the requests thread t built, in order
  t_sent        \* ids of the requests sent by any thread, in sending order

thrVars == <<t_pc, t_tmp, t_ids, t_sent>>

VARIABLES
  dev_values,   \* the device's control values, by control name
  ctl_via,      \* the last set call: "", "core" (set_controls), "http"
  ctl_changes,  \* the changes it was given
  ctl_cmds,     \* the v4l2-ctl commands it ran, in order
  ctl_result,   \* what it returned: <<"ok" | "error" | HTTP status, message>>
  ctl_calls     \* set calls made so far

devVars == <<dev_values, ctl_via, ctl_changes, ctl_cmds, ctl_result, ctl_calls>>

\* The components of the control service that are modelled on their own.
ctrlVars == <<perVars, thrVars, devVars>>

vars == <<httpVars, rpcVars, lsnVars, cliVars, ctrlVars>>

\* ------------------------------------------------------------ CameraHandler

SNAPSHOT == "/snapshot.jpg"
MJPEG == "/stream.mjpg"
H264 == "/stream.h264"
MediaPaths == {SNAPSHOT, MJPEG, H264}

\* Mutant: a media kind without a configured socket falls back to a default.
configured_or_default(p) ==
  LET c == IF p = SNAPSHOT THEN jpeg_sock
           ELSE IF p = MJPEG THEN mjpeg_sock ELSE h264_sock
  IN  IF c = "" THEN "/tmp/default.sock" ELSE c

\* The socket path configured for a media path; "" is falsy (`if not self.x`).
configured(p) ==
  IF p = SNAPSHOT THEN jpeg_sock ELSE IF p = MJPEG THEN mjpeg_sock ELSE h264_sock

content_type(p) ==
  IF p = SNAPSHOT THEN "image/jpeg"
  ELSE IF p = MJPEG THEN "multipart/x-mixed-replace; boundary=frame"
  ELSE "video/h264"

\* Exceptions the client side (wfile.write / wfile.flush) can raise.
WriteErrors == {"BrokenPipeError", "ConnectionResetError", "OSError"}
\* Exceptions sock.recv can raise.
RecvErrors == {"ConnectionResetError", "OSError"}
\* Exceptions sock.connect can raise.
ConnectErrors == {"FileNotFoundError", "ConnectionRefusedError"}

\* Mutant: only BrokenPipeError is taken for a client disconnect.
except_clause_pipe_only(e) ==
  IF e = "BrokenPipeError" THEN "ClientGone" ELSE "UpstreamError"

\* The except clauses of the three handlers: the first catches
\* (BrokenPipeError, ConnectionResetError) and logs "client disconnected",
\* the second catches the other OSErrors and logs an error.
except_clause(e) ==
  IF e \in {"BrokenPipeError", "ConnectionResetError"} THEN "ClientGone"
  ELSE "UpstreamError"

InitHttp ==
  /\ jpeg_sock \in {"", "/tmp/jpeg.sock"}
  /\ mjpeg_sock \in {"", "/tmp/mjpeg.sock"}
  /\ h264_sock \in {"", "/tmp/h264.sock"}
  /\ path = [r \in Requests |-> ""]
  /\ pc = [r \in Requests |-> "idle"]
  /\ status = [r \in Requests |-> <<>>]
  /\ ctype = [r \in Requests |-> ""]
  /\ body = [r \in Requests |-> <<>>]
  /\ flushed = [r \in Requests |-> <<>>]
  /\ sock = [r \in Requests |-> "none"]
  /\ received = [r \in Requests |-> <<>>]
  /\ buf = [r \in Requests |-> <<>>]
  /\ end = [r \in Requests |-> -1]
  /\ frames = [r \in Requests |-> <<>>]
  /\ chunk = [r \in Requests |-> <<>>]
  /\ exc = [r \in Requests |-> ""]
  /\ raised_by = [r \in Requests |-> ""]
  /\ outcome = [r \in Requests |-> ""]

cfgVars == <<jpeg_sock, mjpeg_sock, h264_sock>>

\* Mutant: the except clause answers with send_error(503).
caught_send_error(r, e, by) ==
  /\ exc' = [exc EXCEPT ![r] = e]
  /\ raised_by' = [raised_by EXCEPT ![r] = by]
  /\ outcome' = [outcome EXCEPT ![r] = except_clause(e)]
  /\ pc' = [pc EXCEPT ![r] = "done"]
  /\ status' = [status EXCEPT ![r] = Append(@, 503)]
  /\ UNCHANGED ctype

\* The handler of request r ends: the exception e raised by `by` is caught by
\* an except clause of the handler (nothing is sent, only logged).
caught(r, e, by) ==
  /\ exc' = [exc EXCEPT ![r] = e]
  /\ raised_by' = [raised_by EXCEPT ![r] = by]
  /\ outcome' = [outcome EXCEPT ![r] = except_clause(e)]
  /\ pc' = [pc EXCEPT ![r] = "done"]
  /\ UNCHANGED <<status, ctype>>

\* do_GET for a media path without a configured source: send_error(503).
do_GET_unavailable(r, paths) ==
  /\ pc[r] = "idle"
  /\ \E p \in paths :
       /\ configured(p) = ""
       /\ path' = [path EXCEPT ![r] = p]
       /\ status' = [status EXCEPT ![r] = Append(@, 503)]
       /\ ctype' = [ctype EXCEPT ![r] = "text/html;charset=utf-8"]
       /\ outcome' = [outcome EXCEPT ![r] = "Unavailable"]
       /\ pc' = [pc EXCEPT ![r] = "done"]
  /\ UNCHANGED <<ctrlVars, cliVars, lsnVars, rpcVars, cfgVars, body, flushed, sock, received, buf, end, frames,
                 chunk, exc, raised_by>>

\* do_GET for a configured media path: send_response(200), the two headers
\* and end_headers(), which writes the buffered status line and headers.
do_GET_headers(r, paths) ==
  /\ pc[r] = "idle"
  /\ \E p \in paths :
       /\ configured(p) # ""
       /\ path' = [path EXCEPT ![r] = p]
       /\ status' = [status EXCEPT ![r] = Append(@, 200)]
       /\ ctype' = [ctype EXCEPT ![r] = content_type(p)]
       /\ pc' = [pc EXCEPT ![r] = "connect"]
  /\ UNCHANGED <<ctrlVars, cliVars, lsnVars, rpcVars, cfgVars, body, flushed, sock, received, buf, end, frames,
                 chunk, exc, raised_by, outcome>>

\* First next() of the generator: read_socket creates the socket and
\* connects (lines 14-15), then blocks in recv.
connect_ok(r) ==
  /\ pc[r] = "connect"
  /\ sock' = [sock EXCEPT ![r] = "open"]
  /\ pc' = [pc EXCEPT ![r] = "recv"]
  /\ UNCHANGED <<ctrlVars, cliVars, lsnVars, rpcVars, cfgVars, path, status, ctype, body, flushed, received, buf,
                 end, frames, chunk, exc, raised_by, outcome>>

\* sock.connect raises: line 15 is outside the try, so the finally of line 22
\* does not run and the socket object is left to the garbage collector.
connect_fail(r) ==
  /\ pc[r] = "connect"
  /\ sock' = [sock EXCEPT ![r] = "open"]
  /\ \E e \in ConnectErrors : caught(r, e, "connect")
  /\ UNCHANGED <<ctrlVars, cliVars, lsnVars, rpcVars, cfgVars, path, body, flushed, received, buf,
                 end, frames, chunk>>

\* The generator's body from a resumption to its next yield or recv, given
\* the buffer b it resumes with: MJPEG scans, the other two yield the chunk.
after_scan(r, b) ==
  LET s == scan(b)
  IN  /\ buf' = [buf EXCEPT ![r] = s.buf]
      /\ end' = [end EXCEPT ![r] = s.end]
      /\ IF s.yield
         THEN /\ frames' = [frames EXCEPT ![r] = Append(@, s.frame)]
              /\ chunk' = [chunk EXCEPT ![r] = s.frame]
              /\ pc' = [pc EXCEPT ![r] = "write_header"]
         ELSE /\ UNCHANGED <<frames, chunk>>
              /\ pc' = [pc EXCEPT ![r] = "recv"]

\* sock.recv returns a non-empty chunk c (at most max_recvs chunks and
\* max_bytes bytes per request).
recv_chunk(r, chunks, max_recvs, max_bytes) ==
  /\ pc[r] = "recv"
  /\ Len(received[r]) < max_recvs
  /\ \E c \in chunks :
       /\ Len(concat(received[r])) + Len(c) <= max_bytes
       /\ received' = [received EXCEPT ![r] = Append(@, c)]
       /\ IF path[r] = MJPEG
          THEN after_scan(r, buf[r] \o c)
          ELSE /\ chunk' = [chunk EXCEPT ![r] = c]
               /\ pc' = [pc EXCEPT ![r] = "write"]
               /\ UNCHANGED <<buf, end, frames>>
  /\ UNCHANGED <<ctrlVars, cliVars, lsnVars, rpcVars, cfgVars, path, status, ctype, body, flushed, sock, exc,
                 raised_by, outcome>>

\* Mutant: at the end of the stream what is left in the buffer is sent as a
\* last frame.
recv_eof_yields_tail(r) ==
  /\ pc[r] = "recv"
  /\ sock' = [sock EXCEPT ![r] = "closed"]
  /\ outcome' = [outcome EXCEPT ![r] = "Done"]
  /\ pc' = [pc EXCEPT ![r] = "done"]
  /\ frames' = [frames EXCEPT ![r] = IF buf[r] = <<>> THEN @ ELSE Append(@, buf[r])]
  /\ body' = [body EXCEPT ![r] = @ \o buf[r]]
  /\ UNCHANGED <<ctrlVars, cliVars, lsnVars, rpcVars, cfgVars, path, status, ctype, flushed,
                 received, buf, end, chunk, exc, raised_by>>

\* sock.recv returns b'': break, finally sock.close(), the for loop ends and
\* the handler logs the end of the stream.
recv_eof(r) ==
  /\ pc[r] = "recv"
  /\ sock' = [sock EXCEPT ![r] = "closed"]
  /\ outcome' = [outcome EXCEPT ![r] = "Done"]
  /\ pc' = [pc EXCEPT ![r] = "done"]
  /\ UNCHANGED <<ctrlVars, cliVars, lsnVars, rpcVars, cfgVars, path, status, ctype, body, flushed, received, buf,
                 end, frames, chunk, exc, raised_by>>

\* sock.recv raises: finally sock.close(), the exception reaches the handler.
recv_fail(r) ==
  /\ pc[r] = "recv"
  /\ sock' = [sock EXCEPT ![r] = "closed"]
  /\ \E e \in RecvErrors : caught(r, e, "recv")
  /\ UNCHANGED <<ctrlVars, cliVars, lsnVars, rpcVars, cfgVars, path, body, flushed, received, buf,
                 end, frames, chunk>>

\* Mutant: the part's trailing CRLF is never written.
after_write_no_trailer(r) ==
  IF pc[r] = "write_header" THEN "write_frame"
  ELSE IF pc[r] = "write_frame" THEN "flush"
  ELSE IF pc[r] = "write_trailer" THEN "flush"
  ELSE IF path[r] = H264 THEN "flush"
  ELSE "recv"

\* Mutant: a chunk is relayed without its first byte.
write_data_short(r) ==
  IF pc[r] = "write_header" THEN PartHeader
  ELSE IF pc[r] = "write_trailer" THEN PartTrailer
  ELSE IF pc[r] = "write" THEN Tail(chunk[r])
  ELSE chunk[r]

\* What wfile.write(data) is called with at pc, and where it leads.
write_data(r) ==
  IF pc[r] = "write_header" THEN PartHeader
  ELSE IF pc[r] = "write_trailer" THEN PartTrailer
  ELSE chunk[r]

after_write(r) ==
  IF pc[r] = "write_header" THEN "write_frame"
  ELSE IF pc[r] = "write_frame" THEN "write_trailer"
  ELSE IF pc[r] = "write_trailer" THEN "flush"
  ELSE IF path[r] = H264 THEN "flush"
  ELSE "recv"

WritePcs == {"write", "write_header", "write_frame", "write_trailer"}

\* wfile.write(data) succeeds (wfile is unbuffered: sendall of the data).
write_ok(r) ==
  /\ pc[r] \in WritePcs
  /\ body' = [body EXCEPT ![r] = @ \o write_data(r)]
  /\ pc' = [pc EXCEPT ![r] = after_write(r)]
  /\ UNCHANGED <<ctrlVars, cliVars, lsnVars, rpcVars, cfgVars, path, status, ctype, flushed, sock, received, buf,
                 end, frames, chunk, exc, raised_by, outcome>>

\* wfile.write(data) raises after n bytes of the data went out.
write_fail(r) ==
  /\ pc[r] \in WritePcs
  /\ \E n \in {0, Len(write_data(r)) - 1} :
       /\ n >= 0
       /\ body' = [body EXCEPT ![r] = @ \o slice(write_data(r), 0, n)]
  /\ \E e \in WriteErrors : caught(r, e, "write")
  /\ UNCHANGED <<ctrlVars, cliVars, lsnVars, rpcVars, cfgVars, path, flushed, sock, received, buf,
                 end, frames, chunk>>

\* wfile.flush() returns; the generator is then resumed (MJPEG: line 43 trims
\* the buffer and the scan goes on) up to its next yield or recv.
flush_ok(r) ==
  /\ pc[r] = "flush"
  /\ flushed' = [flushed EXCEPT ![r] = Append(@, Len(body[r]))]
  /\ IF path[r] = MJPEG
     THEN after_scan(r, keep_after_frame(buf[r], end[r]))
     ELSE /\ pc' = [pc EXCEPT ![r] = "recv"]
          /\ UNCHANGED <<buf, end, frames, chunk>>
  /\ UNCHANGED <<ctrlVars, cliVars, lsnVars, rpcVars, cfgVars, path, status, ctype, body, sock, received, exc,
                 raised_by, outcome>>

\* wfile.flush() raises.
flush_fail(r) ==
  /\ pc[r] = "flush"
  /\ \E e \in WriteErrors : caught(r, e, "flush")
  /\ UNCHANGED <<ctrlVars, cliVars, lsnVars, rpcVars, cfgVars, path, body, flushed, sock, received,
                 buf, end, frames, chunk>>

\* The runtime finalizes what the ended handler left behind: an abandoned
\* generator is closed (GeneratorExit at its yield runs the finally of line
\* 22), a socket whose connect failed is closed by its finalizer.
finalize(r) ==
  /\ pc[r] = "done"
  /\ sock[r] = "open"
  /\ sock' = [sock EXCEPT ![r] = "closed"]
  /\ UNCHANGED <<ctrlVars, cliVars, lsnVars, rpcVars, cfgVars, path, pc, status, ctype, body, flushed, received,
                 buf, end, frames, chunk, exc, raised_by, outcome>>

\* ------------------------------------------------------------ Python values

\* Values are tagged tuples: None, bool, int, str, list, dict (insertion-
\* ordered key/value pairs, keys unique) and an object json cannot serialize.
None_ == <<"null">>
Bool(b) == <<"bool", b>>
Num(n) == <<"num", n>>
Str(x) == <<"str", x>>
List(xs) == <<"list", xs>>
Dict(items) == <<"dict", items>>
Tuple(xs) == <<"tuple", xs>>
Unserializable == <<"object">>

\* k in d
dict_has(d, k) == \E i \in 1..Len(d[2]) : d[2][i][1] = k

\* d.get(k, default)
dict_get(d, k, default) ==
  IF dict_has(d, k)
  THEN d[2][CHOOSE i \in 1..Len(d[2]) : d[2][i][1] = k][2]
  ELSE default

\* d[k] = v
dict_set(d, k, v) ==
  IF dict_has(d, k)
  THEN Dict([i \in 1..Len(d[2]) |->
               IF d[2][i][1] = k THEN <<k, v>> ELSE d[2][i]])
  ELSE Dict(Append(d[2], <<k, v>>))

\* Whether json.dumps(v) succeeds (TypeError otherwise).
RECURSIVE serializable(_)
serializable(v) ==
  IF v[1] = "object" THEN FALSE
  ELSE IF v[1] \in {"list", "tuple"}
  THEN \A i \in 1..Len(v[2]) : serializable(v[2][i])
  ELSE IF v[1] = "dict" THEN \A i \in 1..Len(v[2]) : serializable(v[2][i][2])
  ELSE TRUE

\* json.loads(json.dumps(v)) for a serializable v: a tuple comes back as a
\* list, at every depth; the other values come back equal.
RECURSIVE json_roundtrip(_)
json_roundtrip(v) ==
  IF v[1] \in {"list", "tuple"}
  THEN List([i \in 1..Len(v[2]) |-> json_roundtrip(v[2][i])])
  ELSE IF v[1] = "dict"
  THEN Dict([i \in 1..Len(v[2]) |->
               <<v[2][i][1], json_roundtrip(v[2][i][2])>>])
  ELSE v

\* bool(v): None, False, 0, "" and empty containers are falsy.
truthy(v) ==
  IF v[1] = "null" THEN FALSE
  ELSE IF v[1] = "bool" THEN v[2] = "true"
  ELSE IF v[1] = "num" THEN v[2] # 0
  ELSE IF v[1] = "str" THEN v[2] # ""
  ELSE IF v[1] \in {"list", "tuple", "dict"} THEN v[2] # <<>>
  ELSE TRUE

\* ------------------------------------------------------- ControlPersistence

Float(x) == <<"float", x>>

\* A state file that holds the JSON text of value v, and one that holds text
\* json.load cannot parse (a dump that stopped half way, an empty file).
file_text(v) == <<"text", v>>
file_junk == <<"junk">>

\* Mutant: the file is opened for update and the new members are merged into
\* the object it holds.
RECURSIVE merged(_, _)
merged(d, items) ==
  IF items = <<>> THEN d
  ELSE merged(dict_set(d, items[1][1], items[1][2]), Tail(items))
written_merged(old, values) ==
  IF old[1] = "text" /\ old[2][1] = "dict" /\ values[1] = "dict"
  THEN file_text(merged(old[2], json_roundtrip(values)[2]))
  ELSE file_text(json_roundtrip(values))

\* open(state_file, 'w') truncates the file, json.dump writes the text of
\* values (lines 36-37); a value json cannot serialize stops the dump with
\* TypeError after part of the text is out.
written(old, values) ==
  IF serializable(values) THEN file_text(json_roundtrip(values))
  ELSE file_junk

\* isinstance(value, int): int and its subclass bool.
is_int(v) == v[1] \in {"num", "bool"}

\* The value load() returns for a state file (lines 45-65).
loaded_from(file) ==
  IF file[1] = "absent" THEN Dict(<<>>)
  ELSE IF file[1] = "junk" THEN Dict(<<>>)
  ELSE IF file[2][1] # "dict" THEN Dict(<<>>)
  ELSE Dict(SelectSeq(file[2][2], LAMBDA kv : is_int(kv[2])))

\* save(values) with os.makedirs and open succeeding (at most max_saves
\* mappings are remembered).
per_save(mappings, max_saves) ==
  \E values \in mappings :
    /\ Len(per_saved) < max_saves
    /\ state_dir' = "present"
    /\ state_file' = written(state_file, values)
    /\ per_exc' = IF serializable(values) THEN "" ELSE "TypeError"
    /\ per_saved' = IF serializable(values) THEN Append(per_saved, values)
                    ELSE <<>>
    /\ per_op' = "save"
    /\ UNCHANGED <<httpVars, rpcVars, lsnVars, cliVars, thrVars, devVars, per_loaded>>

\* save(values) when os.makedirs or open raises OSError: nothing is written.
per_save_fail ==
  /\ per_exc' = "OSError"
  /\ per_op' = "save"
  /\ UNCHANGED <<httpVars, rpcVars, lsnVars, cliVars, thrVars, devVars, state_dir, state_file,
                 per_saved, per_loaded>>

\* load()
per_load ==
  /\ per_loaded' = loaded_from(state_file)
  /\ per_exc' = ""
  /\ per_op' = "load"
  /\ UNCHANGED <<httpVars, rpcVars, lsnVars, cliVars, thrVars, devVars, state_dir, state_file,
                 per_saved>>

\* clear()
per_clear ==
  /\ state_file' = <<"absent">>
  /\ per_saved' = <<>>
  /\ per_exc' = ""
  /\ per_op' = "clear"
  /\ UNCHANGED <<httpVars, rpcVars, lsnVars, cliVars, thrVars, devVars, state_dir, per_loaded>>

\* No state directory, no state file, no call made yet.
InitPersist ==
  /\ state_dir = "missing"
  /\ state_file = <<"absent">>
  /\ per_saved = <<>>
  /\ per_op = ""
  /\ per_loaded = <<"none">>
  /\ per_exc = ""

\* ------------------------------------- JSONRPCClient shared by threads

Threads == {1, 2}

\* `self.request_id += 1` (line 248) is a load, an add and a store; another
\* thread may run between any two of them.
thr_load(t, max_calls) ==
  /\ t_pc[t] = "idle"
  /\ Len(t_ids[t]) < max_calls
  /\ t_tmp' = [t_tmp EXCEPT ![t] = request_id]
  /\ t_pc' = [t_pc EXCEPT ![t] = "loaded"]
  /\ UNCHANGED <<httpVars, rpcVars, lsnVars, cliVars, perVars, devVars, t_ids, t_sent>>

thr_store(t) ==
  /\ t_pc[t] = "loaded"
  /\ request_id' = t_tmp[t] + 1
  /\ t_pc' = [t_pc EXCEPT ![t] = "stored"]
  /\ UNCHANGED <<httpVars, rpcVars, lsnVars, perVars, devVars, cli_pc, cli_socks,
                 cli_params, cli_request, cli_ids, cli_outcome, t_tmp, t_ids,
                 t_sent>>

\* "id": self.request_id (line 253): the attribute is read again.
built_id(t) == request_id

\* The request dict is built (lines 249-254).
thr_build(t) ==
  /\ t_pc[t] = "stored"
  /\ t_ids' = [t_ids EXCEPT ![t] = Append(@, built_id(t))]
  /\ t_pc' = [t_pc EXCEPT ![t] = "built"]
  /\ UNCHANGED <<httpVars, rpcVars, lsnVars, cliVars, perVars, devVars, t_tmp, t_sent>>

\* The thread's own socket carries the request and the response (lines
\* 257-286), and call() returns.
thr_exchange(t) ==
  /\ t_pc[t] = "built"
  /\ t_sent' = Append(t_sent, t_ids[t][Len(t_ids[t])])
  /\ t_pc' = [t_pc EXCEPT ![t] = "idle"]
  /\ UNCHANGED <<httpVars, rpcVars, lsnVars, cliVars, perVars, devVars, t_tmp, t_ids>>

InitThreads ==
  /\ t_pc = [t \in Threads |-> "idle"]
  /\ t_tmp = [t \in Threads |-> 0]
  /\ t_ids = [t \in Threads |-> <<>>]
  /\ t_sent = <<>>

\* ------------------------------------------------------- setting controls

\* The controls `v4l2-ctl --list-ctrls` lists: an int control with a range,
\* one whose min and max do not parse (get_int_from_parts gives None), and a
\* bool control.
Controls ==
  << [name |-> "brightness", ranged |-> TRUE, min |-> 0, max |-> 10],
     [name |-> "gain", ranged |-> FALSE, min |-> 0, max |-> 0],
     [name |-> "flip", ranged |-> TRUE, min |-> 0, max |-> 1] >>

allowlist == {Controls[i].name : i \in 1..Len(Controls)}
control_map(name) == Controls[CHOOSE i \in 1..Len(Controls) : Controls[i].name = name]

\* isinstance(value, int) and the integer it compares as: True is 1.
int_of(v) == IF v[1] = "bool" THEN (IF v[2] = "true" THEN 1 ELSE 0) ELSE v[2]

\* f"{key}={value}": str() of an int is its digits, of a bool True or False.
set_part(key, v) ==
  <<key, IF v[1] = "bool" THEN (IF v[2] = "true" THEN "True" ELSE "False")
         ELSE ToString(v[2])>>

ListCmd == <<"--list-ctrls">>
SetCmd(items) ==
  <<"--set-ctrl", [i \in 1..Len(items) |-> set_part(items[i][1], items[i][2])]>>

\* The validation loop of set_controls (lines 299-316) over the items of
\* changes, in order: "" if every entry passes, otherwise the error of the
\* first entry that does not.
RECURSIVE core_error(_)
core_error(items) ==
  IF items = <<>> THEN ""
  ELSE LET key == items[1][1]
           value == items[1][2]
       IN  IF key \notin allowlist THEN "Unknown control"
           ELSE IF ~is_int(value) THEN "must be integer"
           ELSE IF /\ control_map(key).ranged
                   /\ ~(/\ control_map(key).min <= int_of(value)
                        /\ int_of(value) <= control_map(key).max)
           THEN "out of range"
           ELSE core_error(Tail(items))

\* The validation loop of handle_api_v4l2_set (lines 237-243).
RECURSIVE http_error(_)
http_error(items) ==
  IF items = <<>> THEN ""
  ELSE IF items[1][1] \notin allowlist THEN "not recognized or allowed"
  ELSE IF ~is_int(items[1][2]) THEN "must be an integer"
  ELSE http_error(Tail(items))

\* v4l2-ctl applies a set command: every part must be name=digits.
settable(items) == \A i \in 1..Len(items) : items[i][2][1] = "num"
applied(values, items) ==
  [n \in DOMAIN values |->
     IF \E i \in 1..Len(items) : items[i][1] = n
     THEN items[CHOOSE i \in 1..Len(items) : items[i][1] = n][2][2]
     ELSE values[n]]

\* set_controls(device, changes); list_ok and set_ok say whether v4l2-ctl
\* exits with 0.
set_controls(changes, list_ok, set_ok, max_calls) ==
  /\ ctl_calls < max_calls
  /\ ctl_calls' = ctl_calls + 1
  /\ ctl_via' = "core"
  /\ ctl_changes' = changes
  /\ IF ~truthy(changes)
     THEN /\ ctl_cmds' = <<>>
          /\ ctl_result' = <<"error", "No controls provided">>
          /\ UNCHANGED dev_values
     ELSE IF ~list_ok
     THEN /\ ctl_cmds' = <<ListCmd>>
          /\ ctl_result' = <<"error", "Failed to list controls">>
          /\ UNCHANGED dev_values
     ELSE IF core_error(changes[2]) # ""
     THEN /\ ctl_cmds' = <<ListCmd>>
          /\ ctl_result' = <<"error", core_error(changes[2])>>
          /\ UNCHANGED dev_values
     ELSE /\ ctl_cmds' = <<ListCmd, SetCmd(changes[2])>>
          /\ IF set_ok /\ settable(changes[2])
             THEN /\ ctl_result' = <<"ok", "applied">>
                  /\ dev_values' = applied(dev_values, changes[2])
             ELSE /\ ctl_result' = <<"error", "Failed to set controls">>
                  /\ UNCHANGED dev_values
  /\ UNCHANGED <<httpVars, rpcVars, lsnVars, cliVars, perVars, thrVars>>

\* POST /api/v4l2/set with a JSON body that parsed to settings, for a camera
\* that exists (lines 222-274).
handle_api_v4l2_set(settings, list_ok, set_ok, max_calls) ==
  /\ ctl_calls < max_calls
  /\ ctl_calls' = ctl_calls + 1
  /\ ctl_via' = "http"
  /\ ctl_changes' = settings
  /\ IF ~list_ok
     THEN /\ ctl_cmds' = <<ListCmd>>
          /\ ctl_result' = <<"500", "Failed to set controls">>
          /\ UNCHANGED dev_values
     ELSE IF settings[1] # "dict"
     THEN /\ ctl_cmds' = <<ListCmd>>
          /\ ctl_result' = <<"500", "An unexpected error occurred">>
          /\ UNCHANGED dev_values
     ELSE IF http_error(settings[2]) # ""
     THEN /\ ctl_cmds' = <<ListCmd>>
          /\ ctl_result' = <<"400", http_error(settings[2])>>
          /\ UNCHANGED dev_values
     ELSE IF settings[2] = <<>>
     THEN /\ ctl_cmds' = <<ListCmd>>
          /\ ctl_result' = <<"400", "No valid controls to set.">>
          /\ UNCHANGED dev_values
     ELSE /\ ctl_cmds' = <<ListCmd, SetCmd(settings[2])>>
          /\ IF set_ok /\ settable(settings[2])
             THEN /\ ctl_result' = <<"200", "applied">>
                  /\ dev_values' = applied(dev_values, settings[2])
             ELSE /\ ctl_result' = <<"500", "Failed to set controls">>
                  /\ UNCHANGED dev_values
  /\ UNCHANGED <<httpVars, rpcVars, lsnVars, cliVars, perVars, thrVars>>

InitDevice ==
  /\ dev_values = [n \in allowlist |-> 0]
  /\ ctl_via = ""
  /\ ctl_changes = None_
  /\ ctl_cmds = <<>>
  /\ ctl_result = <<"none", "">>
  /\ ctl_calls = 0

InitCtrl == InitPersist /\ InitThreads /\ InitDevice

\* ------------------------------------------------------------ JSONRPCServer

\* Mutant: an error response also carries a null result member.
error_response_with_result(code, message, id) ==
  Dict(<< <<"jsonrpc", Str("2.0")>>,
          <<"error", Dict(<< <<"code", Num(code)>>, <<"message", message>> >>)>>,
          <<"result", None_>>,
          <<"id", id>> >>)

error_response(code, message, id) ==
  Dict(<< <<"jsonrpc", Str("2.0")>>,
          <<"error", Dict(<< <<"code", Num(code)>>, <<"message", message>> >>)>>,
          <<"id", id>> >>)

result_response(result, id) ==
  Dict(<< <<"jsonrpc", Str("2.0")>>, <<"result", result>>, <<"id", id>> >>)

\* The handlers registered in this model. A handler takes params and returns
\* a value or raises: [raised, value, msg].
Handlers == {"pong", "echo", "boom", "apperr", "raw"}

handler_result(h, params) ==
  IF h = "pong" THEN [raised |-> FALSE, value |-> Str("pong"), msg |-> ""]
  ELSE IF h = "echo" THEN [raised |-> FALSE, value |-> params, msg |-> ""]
  ELSE IF h = "boom" THEN [raised |-> TRUE, value |-> None_, msg |-> "boom"]
  ELSE IF h = "apperr"
  THEN [raised |-> FALSE, value |-> Dict(<< <<"error", Str("bad")>> >>),
        msg |-> ""]
  ELSE [raised |-> FALSE, value |-> Unserializable, msg |-> ""]

\* Mutant: every method name is taken as registered; looking up a missing
\* one raises KeyError in the try block of line 110.
method_registered_any(table, name) == TRUE

\* method in self.methods (line 84)
method_registered(table, name) == dict_has(table, name)

\* Mutant: params of any type are let through to the handler.
params_allowed_any(params) == TRUE

\* isinstance(params, (dict, list, type(None))) (line 95)
params_allowed(params) == params[1] \in {"dict", "list", "null"}

\* Mutant: array params are passed on to the handler as they are.
normalize_params_keep_list(params) == params

\* if isinstance(params, list): params = {} (lines 106-107)
normalize_params(params) == IF params[1] = "list" THEN Dict(<<>>) ELSE params

\* Mutant: a returned object with an "error" member is passed on as a result.
call_method_error_as_result(table, name, params, req_id) ==
  LET out == handler_result(dict_get(table, name, ""), params)
  IN  [calls |-> << <<name, params>> >>,
       response |->
         IF out.raised
         THEN error_response(-32603, Str("Internal error: " \o out.msg), req_id)
         ELSE result_response(out.value, req_id)]

\* Lines 109-139: the handler is called and its outcome becomes the response.
call_method(table, name, params, req_id) ==
  LET out == IF dict_has(table, name)
             THEN handler_result(dict_get(table, name, ""), params)
             ELSE [raised |-> TRUE, value |-> None_, msg |-> "'" \o name \o "'"]
  IN  [calls |-> IF dict_has(table, name) THEN << <<name, params>> >> ELSE <<>>,
       response |->
         IF out.raised
         THEN error_response(-32603, Str("Internal error: " \o out.msg), req_id)
         ELSE IF out.value[1] = "dict" /\ dict_has(out.value, "error")
         THEN error_response(-32000, dict_get(out.value, "error", None_), req_id)
         ELSE result_response(out.value, req_id)]

\* Mutant: validation failures of the request are reported as parse errors.
rejected_as_parse_error(code, message, id) ==
  [calls |-> <<>>,
   response |->
     error_response(IF code = -32600 THEN -32700 ELSE code, Str(message), id)]

\* Mutant: validation errors carry id null instead of the request's id.
rejected_null_id(code, message, id) ==
  [calls |-> <<>>, response |-> error_response(code, Str(message), None_)]

rejected(code, message, id) ==
  [calls |-> <<>>, response |-> error_response(code, Str(message), id)]

\* Mutant: params are validated before the method is looked up.
handle_request_params_first(table, req) ==
  IF req[1] # "dict" THEN rejected(-32600, "Invalid Request", None_)
  ELSE
    LET jsonrpc == dict_get(req, "jsonrpc", None_)
        method == dict_get(req, "method", None_)
        params == dict_get(req, "params", Dict(<<>>))
        req_id == dict_get(req, "id", None_)
    IN  IF jsonrpc # Str("2.0")
        THEN rejected(-32600, "Invalid Request: jsonrpc must be '2.0'", req_id)
        ELSE IF method[1] # "str"
        THEN rejected(-32600, "Invalid Request: method must be string", req_id)
        ELSE IF ~params_allowed(params)
        THEN rejected(-32602, "Invalid params: must be dict, list, or null",
                      req_id)
        ELSE IF ~method_registered(table, method[2])
        THEN rejected(-32601, "Method not found: " \o method[2], req_id)
        ELSE call_method(table, method[2], normalize_params(params), req_id)

\* handle_request (lines 36-139): [response, calls].
handle_request(table, req) ==
  IF req[1] # "dict" THEN rejected(-32600, "Invalid Request", None_)
  ELSE
    LET jsonrpc == dict_get(req, "jsonrpc", None_)
        method == dict_get(req, "method", None_)
        params == dict_get(req, "params", Dict(<<>>))
        req_id == dict_get(req, "id", None_)
    IN  IF jsonrpc # Str("2.0")
        THEN rejected(-32600, "Invalid Request: jsonrpc must be '2.0'", req_id)
        ELSE IF method[1] # "str"
        THEN rejected(-32600, "Invalid Request: method must be string", req_id)
        ELSE IF ~method_registered(table, method[2])
        THEN rejected(-32601, "Method not found: " \o method[2], req_id)
        ELSE IF ~params_allowed(params)
        THEN rejected(-32602, "Invalid params: must be dict, list, or null",
                      req_id)
        ELSE call_method(table, method[2], normalize_params(params), req_id)

\* Bytes on a connection, one tuple <<kind, value, nl>> per recv: "text" is
\* the JSON text of value, "head" and "tail" are its two halves, "junk" is
\* text that is no JSON, "bin" is bytes that are no UTF-8, "ws" is blank; nl
\* is "\n" when the chunk ends with a newline.
has_newline(d) == \E i \in 1..Len(d) : d[i][3] = "\n"

\* Whether data.decode() succeeds (UnicodeDecodeError otherwise).
decodable(d) == \A i \in 1..Len(d) : d[i][1] # "bin"

\* json.loads(text.strip()): [ok, value]; not ok is JSONDecodeError.
loads(d) ==
  LET t == SelectSeq(d, LAMBDA c : c[1] # "ws")
  IN  IF Len(t) = 1 /\ t[1][1] = "text" THEN [ok |-> TRUE, value |-> t[1][2]]
      ELSE IF /\ Len(t) = 2
              /\ t[1][1] = "head" /\ t[2][1] = "tail"
              /\ t[1][2] = t[2][2]
              /\ t[1][3] = ""
      THEN [ok |-> TRUE, value |-> t[1][2]]
      ELSE [ok |-> FALSE, value |-> None_]

InitRpc ==
  /\ methods = Dict(<<>>)
  /\ srv_pc = "init"
  /\ accepted = 0
  /\ conn = "none"
  /\ data = <<>>
  /\ request = None_
  /\ response = None_
  /\ calls = <<>>
  /\ wire = <<>>
  /\ rpc_exc = ""
  /\ io_error = FALSE
  /\ served = <<>>

\* JSONRPCClient.__init__; no call made yet.
InitClient ==
  /\ request_id = 0
  /\ cli_pc = "idle"
  /\ cli_socks = <<>>
  /\ cli_params = None_
  /\ cli_request = None_
  /\ cli_ids = <<>>
  /\ cli_outcome = <<"none">>

\* run() has not been called: no listening socket, no socket file.
InitNotListening ==
  /\ lsock = "none"
  /\ sock_file = "absent"
  /\ clients = <<>>

\* run() has reached its serving loop.
InitListening ==
  /\ lsock = "listening"
  /\ sock_file = "bound"
  /\ clients = <<>>

Init == InitHttp /\ InitRpc /\ InitClient /\ InitCtrl /\ InitNotListening

\* register_method(name, handler), before the serving loop starts.
register_method(name, handler) ==
  /\ srv_pc = "init"
  /\ methods' = dict_set(methods, name, handler)
  /\ UNCHANGED <<ctrlVars, cliVars, lsnVars, httpVars, srv_pc, accepted, conn, data, request, response,
                 calls, wire, rpc_exc, io_error, served>>

\* Mutant: a request for a method that is not bound binds it to a default
\* handler.
call_handle_request_autobind(req) ==
  /\ srv_pc = "init"
  /\ LET hr == handle_request(methods, req)
     IN  /\ request' = req
         /\ response' = hr.response
         /\ calls' = hr.calls
  /\ methods' =
       IF /\ req[1] = "dict"
          /\ dict_get(req, "method", None_)[1] = "str"
          /\ ~dict_has(methods, dict_get(req, "method", None_)[2])
       THEN dict_set(methods, dict_get(req, "method", None_)[2], "pong")
       ELSE methods
  /\ srv_pc' = "returned"
  /\ UNCHANGED <<ctrlVars, cliVars, lsnVars, httpVars, accepted, conn, data, wire, rpc_exc,
                 io_error, served>>

\* A direct call of handle_request(req), as a test makes it.
call_handle_request(req) ==
  /\ srv_pc = "init"
  /\ LET hr == handle_request(methods, req)
     IN  /\ request' = req
         /\ response' = hr.response
         /\ calls' = hr.calls
  /\ srv_pc' = "returned"
  /\ UNCHANGED <<ctrlVars, cliVars, lsnVars, httpVars, methods, accepted, conn, data, wire, rpc_exc,
                 io_error, served>>

\* Mutant: the loop goes back to accept without closing the connection.
close_conn_leak ==
  /\ UNCHANGED conn
  /\ served' = Append(served, <<Len(wire'), rpc_exc'>>)
  /\ srv_pc' = "accept"

\* finally: conn.close(), and the loop is back at accept.
close_conn ==
  /\ conn' = "closed"
  /\ served' = Append(served, <<Len(wire'), rpc_exc'>>)
  /\ srv_pc' = "accept"

\* except Exception as e: log, build the error response, try to send it.
except_exception(e) ==
  /\ rpc_exc' = e
  /\ response' =
       error_response(-32603, Str("Internal error: " \o e), None_)
  /\ srv_pc' = "send_error"

\* conn, _ = sock.accept(); data = b""
rpc_accept(max_conns) ==
  /\ srv_pc = "accept"
  /\ accepted < max_conns
  /\ accepted' = accepted + 1
  /\ conn' = "open"
  /\ data' = <<>>
  /\ request' = None_
  /\ response' = None_
  /\ calls' = <<>>
  /\ wire' = <<>>
  /\ rpc_exc' = ""
  /\ io_error' = FALSE
  /\ srv_pc' = "recv"
  /\ UNCHANGED <<ctrlVars, cliVars, lsnVars, httpVars, methods, served>>

\* sock.accept() raises (an interrupt, an OSError): the loop ends and the
\* outer finally closes the listening socket and unlinks the socket file.
rpc_accept_fail ==
  /\ srv_pc = "accept"
  /\ srv_pc' = "stopped"
  /\ lsock' = "closed"
  /\ sock_file' = "absent"
  /\ UNCHANGED <<ctrlVars, cliVars, clients, httpVars, methods, accepted, conn, data, request, response,
                 calls, wire, rpc_exc, io_error, served>>

\* conn.recv(4096) returns a non-empty chunk.
rpc_recv(chunks, max_chunks) ==
  /\ srv_pc = "recv"
  /\ Len(data) < max_chunks
  /\ \E c \in chunks :
       /\ data' = Append(data, c)
       /\ srv_pc' = IF has_newline(data') THEN "parse" ELSE "recv"
  /\ UNCHANGED <<ctrlVars, cliVars, lsnVars, httpVars, methods, accepted, conn, request, response, calls,
                 wire, rpc_exc, io_error, served>>

\* conn.recv returns b'': with no data the connection is closed unanswered
\* (`continue`), otherwise what was read is parsed.
rpc_recv_eof ==
  /\ srv_pc = "recv"
  /\ IF data = <<>>
     THEN /\ UNCHANGED <<wire, rpc_exc>>
          /\ close_conn
     ELSE /\ srv_pc' = "parse"
          /\ UNCHANGED <<conn, served, wire, rpc_exc>>
  /\ UNCHANGED <<ctrlVars, cliVars, lsnVars, httpVars, methods, accepted, data, request, response, calls,
                 io_error>>

\* Mutant: an exception of conn.recv leaves the serving loop.
rpc_recv_fail_stops ==
  /\ srv_pc = "recv"
  /\ rpc_exc' = "ConnectionResetError"
  /\ io_error' = TRUE
  /\ conn' = "closed"
  /\ srv_pc' = "stopped"
  /\ UNCHANGED <<ctrlVars, cliVars, lsnVars, httpVars, methods, accepted, data, request, response, calls,
                 wire, served>>

\* conn.recv raises.
rpc_recv_fail ==
  /\ srv_pc = "recv"
  /\ except_exception("ConnectionResetError")
  /\ io_error' = TRUE
  /\ UNCHANGED <<ctrlVars, cliVars, lsnVars, httpVars, methods, accepted, conn, data, request, calls,
                 wire, served>>

\* Mutant: a parsed value that is not an object is answered as a parse error.
rpc_parse_nonobject_unparsed ==
  /\ srv_pc = "parse"
  /\ IF ~decodable(data)
     THEN /\ except_exception("UnicodeDecodeError")
          /\ UNCHANGED <<request, calls>>
     ELSE IF ~loads(data).ok \/ loads(data).value[1] # "dict"
     THEN /\ response' = error_response(-32700, Str("Parse error: " \o "JSONDecodeError"), None_)
          /\ srv_pc' = "send_parse_error"
          /\ request' = loads(data).value
          /\ UNCHANGED <<calls, rpc_exc>>
     ELSE LET hr == handle_request(methods, loads(data).value)
          IN  /\ request' = loads(data).value
              /\ calls' = hr.calls
              /\ IF serializable(hr.response)
                 THEN /\ response' = hr.response
                      /\ srv_pc' = "send"
                      /\ UNCHANGED rpc_exc
                 ELSE except_exception("TypeError")
  /\ UNCHANGED <<ctrlVars, cliVars, lsnVars, httpVars, methods, accepted, conn, data, wire, io_error,
                 served>>

\* Lines 181-196: decode, json.loads, handle_request, json.dumps.
rpc_parse ==
  /\ srv_pc = "parse"
  /\ IF ~decodable(data)
     THEN /\ except_exception("UnicodeDecodeError")
          /\ UNCHANGED <<request, calls>>
     ELSE IF ~loads(data).ok
     THEN /\ response' = error_response(-32700, Str("Parse error: " \o "JSONDecodeError"), None_)
          /\ srv_pc' = "send_parse_error"
          /\ UNCHANGED <<request, calls, rpc_exc>>
     ELSE LET hr == handle_request(methods, loads(data).value)
          IN  /\ request' = loads(data).value
              /\ calls' = hr.calls
              /\ IF serializable(hr.response)
                 THEN /\ response' = hr.response
                      /\ srv_pc' = "send"
                      /\ UNCHANGED rpc_exc
                 ELSE except_exception("TypeError")
  /\ UNCHANGED <<ctrlVars, cliVars, lsnVars, httpVars, methods, accepted, conn, data, wire, io_error,
                 served>>

\* conn.sendall(json.dumps(response) + '\n') succeeds; finally conn.close().
rpc_send_ok ==
  /\ srv_pc \in {"send", "send_parse_error", "send_error"}
  /\ wire' = Append(wire, <<response, "\n">>)
  /\ UNCHANGED rpc_exc
  /\ close_conn
  /\ UNCHANGED <<ctrlVars, cliVars, lsnVars, httpVars, methods, accepted, data, request, response, calls,
                 io_error>>

\* conn.sendall raises in the try block: the except clause takes over.
rpc_send_fail ==
  /\ srv_pc \in {"send", "send_parse_error"}
  /\ except_exception("BrokenPipeError")
  /\ io_error' = TRUE
  /\ UNCHANGED <<ctrlVars, cliVars, lsnVars, httpVars, methods, accepted, conn, data, request, calls,
                 wire, served>>

\* conn.sendall raises in the except clause: `except: pass`, conn.close().
rpc_send_error_fail ==
  /\ srv_pc = "send_error"
  /\ io_error' = TRUE
  /\ UNCHANGED <<wire, rpc_exc>>
  /\ close_conn
  /\ UNCHANGED <<ctrlVars, cliVars, lsnVars, httpVars, methods, accepted, data, request, response, calls>>

\* ------------------------------------------------------------ JSONRPCClient

\* Mutant: a falsy params argument is sent as null.
params_or_empty_null(params) == IF truthy(params) THEN params ELSE None_

\* params or {} (line 252)
params_or_empty(params) == IF truthy(params) THEN params ELSE Dict(<<>>)

\* Mutant: the finally clause does not close the socket.
cli_exit_leak(out) ==
  /\ cli_outcome' = out
  /\ cli_pc' = "idle"
  /\ UNCHANGED cli_socks

\* call() returns or raises: finally sock.close().
cli_exit(out) ==
  /\ cli_socks' = [cli_socks EXCEPT ![Len(cli_socks)] = "closed"]
  /\ cli_outcome' = out
  /\ cli_pc' = "idle"

\* Mutant: the id is the number of calls that returned so far, plus one.
next_request_id_on_success(id, out) ==
  IF out[1] = "raise" THEN id ELSE id + 1

\* self.request_id += 1 (line 248), whatever the previous call's outcome.
next_request_id(id, out) == id + 1

\* call(method, params) up to the creation of its socket (lines 248-257).
cli_call(method, params, max_calls) ==
  /\ cli_pc = "idle"
  /\ Len(cli_ids) < max_calls
  /\ request_id' = next_request_id(request_id, cli_outcome)
  /\ cli_params' = params
  /\ cli_request' =
       Dict(<< <<"jsonrpc", Str("2.0")>>, <<"method", Str(method)>>,
               <<"params", params_or_empty(params)>>,
               <<"id", Num(request_id')>> >>)
  /\ cli_ids' = Append(cli_ids, request_id')
  /\ cli_socks' = Append(cli_socks, "open")
  /\ cli_outcome' = <<"none">>
  /\ cli_pc' = "connect"
  /\ UNCHANGED <<ctrlVars, httpVars, rpcVars, lsnVars>>

\* sock.connect succeeds: a server is listening on socket_path.
cli_connect_ok ==
  /\ cli_pc = "connect"
  /\ lsock = "listening"
  /\ clients' = Append(clients, "connected")
  /\ cli_pc' = "send"
  /\ UNCHANGED <<ctrlVars, httpVars, rpcVars, lsock, sock_file, request_id, cli_socks,
                 cli_params, cli_request, cli_ids, cli_outcome>>

\* sock.connect raises: nothing listens on socket_path.
cli_connect_fail ==
  /\ cli_pc = "connect"
  /\ lsock # "listening"
  /\ \E e \in ConnectErrors : cli_exit(<<"raise", e>>)
  /\ UNCHANGED <<ctrlVars, httpVars, rpcVars, lsnVars, request_id, cli_params,
                 cli_request, cli_ids>>

\* sock.sendall(json.dumps(request) + '\n'): json.dumps may raise TypeError.
cli_send_ok ==
  /\ cli_pc = "send"
  /\ IF serializable(cli_request)
     THEN /\ clients' = [clients EXCEPT ![Len(clients)] = "sent"]
          /\ cli_pc' = "recv"
          /\ UNCHANGED <<cli_socks, cli_outcome>>
     ELSE /\ cli_exit(<<"raise", "TypeError">>)
          /\ UNCHANGED clients
  /\ UNCHANGED <<ctrlVars, httpVars, rpcVars, lsock, sock_file, request_id, cli_params,
                 cli_request, cli_ids>>

\* sock.sendall raises.
cli_send_fail ==
  /\ cli_pc = "send"
  /\ cli_exit(<<"raise", "BrokenPipeError">>)
  /\ UNCHANGED <<ctrlVars, httpVars, rpcVars, lsnVars, request_id, cli_params,
                 cli_request, cli_ids>>

\* Mutant: the result member is returned whether or not there is an error.
cli_result_ignore_error(resp) ==
  IF resp[1] # "dict" THEN <<"raise", "AttributeError">>
  ELSE <<"return", dict_get(resp, "result", None_)>>

\* Lines 278-283: raise for an error member, else return response.get("result").
cli_result(resp) ==
  IF resp[1] # "dict" THEN <<"raise", "AttributeError">>
  ELSE IF dict_has(resp, "error")
  THEN LET error == dict_get(resp, "error", None_)
       IN  IF error[1] # "dict" THEN <<"raise", "AttributeError">>
           ELSE <<"raise", "Exception", dict_get(error, "code", None_),
                  dict_get(error, "message", None_)>>
  ELSE <<"return", dict_get(resp, "result", None_)>>

\* The recv loop ends, with the line the server wrote or with nothing once
\* the server closed the connection; json.loads, then the error check.
cli_recv ==
  /\ cli_pc = "recv"
  /\ accepted = Len(clients)
  /\ wire # <<>> \/ conn = "closed"
  /\ IF wire = <<>>
     THEN cli_exit(<<"raise", "JSONDecodeError">>)
     ELSE cli_exit(cli_result(json_roundtrip(wire[1][1])))
  /\ UNCHANGED <<ctrlVars, httpVars, rpcVars, lsnVars, request_id, cli_params,
                 cli_request, cli_ids>>

\* sock.recv raises.
cli_recv_fail ==
  /\ cli_pc = "recv"
  /\ cli_exit(<<"raise", "ConnectionResetError">>)
  /\ UNCHANGED <<ctrlVars, httpVars, rpcVars, lsnVars, request_id, cli_params,
                 cli_request, cli_ids>>

\* --------------------------------------------------------- specifications

\* Chunks the upstream of Spec delivers: a whole frame, and the start of one.
StreamChunks == {<<255, 216, 255, 217>>, <<255, 216, 7>>}

\* Every chunk of 1..MaxChunk bytes over the marker bytes and one other byte.
Alphabet == {255, 216, 217, 7}
ByteChunks == UNION {[1..n -> Alphabet] : n \in 1..MaxChunk}
\* One chunk holding several frames: two back to back; and junk, a frame, a
\* stray FF, a frame and the start of a third.
BurstChunks ==
  {<<255, 216, 255, 217, 255, 216, 7, 255, 217>>,
   <<7, 255, 216, 255, 217, 255, 255, 216, 216, 255, 217, 255, 216>>}

Next ==
  \E r \in Requests :
    \/ do_GET_unavailable(r, MediaPaths)
    \/ do_GET_headers(r, MediaPaths)
    \/ connect_ok(r)
    \/ connect_fail(r)
    \/ recv_chunk(r, StreamChunks, MaxRecvs, MaxRecvs * 4)
    \/ recv_eof(r)
    \/ recv_fail(r)
    \/ write_ok(r)
    \/ write_fail(r)
    \/ flush_ok(r)
    \/ flush_fail(r)
    \/ finalize(r)

Spec == Init /\ [][Next]_vars

\* One MJPEG request fed every chunking of every short byte string.
NextExtract ==
  \/ do_GET_unavailable(1, {MJPEG})
  \/ do_GET_headers(1, {MJPEG})
  \/ connect_ok(1)
  \/ connect_fail(1)
  \/ recv_chunk(1, ByteChunks, MaxBytes, MaxBytes)
  \/ recv_chunk(1, BurstChunks, 1, 13)
  \/ recv_eof(1)
  \/ recv_fail(1)
  \/ write_ok(1)
  \/ write_fail(1)
  \/ flush_ok(1)
  \/ flush_fail(1)
  \/ finalize(1)

InitExtract == Init /\ jpeg_sock # "" /\ h264_sock # ""

SpecExtract == InitExtract /\ [][NextExtract]_vars

\* Requests handle_request is called with directly: every combination of the
\* four members, absent or of a right or wrong type, and some non-objects.
Absent == <<"absent">>
JsonrpcOpts == {Absent, Str("2.0"), Str("1.0")}
MethodOpts == {Absent, Num(7), Str("ping"), Str("echo"), Str("missing")}
ParamsOpts ==
  {Absent, None_, Dict(<<>>), Dict(<< <<"x", Num(1)>> >>),
   Dict(<< <<"error", Str("e")>> >>), List(<<>>), List(<<Num(1)>>),
   Str("s"), Num(5), Bool("true")}
IdOpts == {Absent, None_, Num(1), Str("a")}

member(k, v) == IF v = Absent THEN <<>> ELSE << <<k, v>> >>

request_object(j, m, p, i) ==
  Dict(member("jsonrpc", j) \o member("method", m) \o member("params", p)
         \o member("id", i))

NonObjects ==
  {None_, Num(3), Str("ping"), Bool("true"), List(<<>>), List(<<Num(1)>>)}

HandleRequests ==
  NonObjects \cup
  {request_object(j, m, p, i) :
     j \in JsonrpcOpts, m \in MethodOpts, p \in ParamsOpts, i \in IdOpts}

NextHandle ==
  \/ \E n \in {"ping", "echo"}, h \in Handlers : register_method(n, h)
  \/ \E req \in HandleRequests : call_handle_request(req)

InitHandle ==
  Init /\ jpeg_sock # "" /\ mjpeg_sock # "" /\ h264_sock # ""

SpecHandle == InitHandle /\ [][NextHandle]_vars

\* The serving loop: the table it serves and the requests clients send.
ServeTable ==
  Dict(<< <<"ping", "pong">>, <<"echo", "echo">>, <<"fail", "boom">>,
          <<"apperr", "apperr">>, <<"raw", "raw">> >>)

PingRequest == request_object(Str("2.0"), Str("ping"), Absent, Num(1))

WireValues ==
  {PingRequest,
   request_object(Str("1.0"), Str("ping"), Absent, Num(2)),
   request_object(Str("2.0"), Str("missing"), Str("s"), Num(3)),
   request_object(Str("2.0"), Str("fail"), Absent, Num(4)),
   request_object(Str("2.0"), Str("apperr"), None_, Num(5)),
   request_object(Str("2.0"), Str("raw"), Absent, Num(6)),
   request_object(Str("2.0"), Str("echo"), Dict(<< <<"x", Num(1)>> >>), Absent),
   List(<<Num(1)>>)}

WireChunks ==
  {<<"text", v, nl>> : v \in WireValues, nl \in {"", "\n"}}
  \cup {<<"head", PingRequest, "">>}
  \cup {<<"tail", PingRequest, nl>> : nl \in {"", "\n"}}
  \cup {<<k, None_, nl>> : k \in {"junk", "bin"}, nl \in {"", "\n"}}
  \cup {<<"ws", None_, "\n">>}

InitServe ==
  /\ InitHttp /\ jpeg_sock # "" /\ mjpeg_sock # "" /\ h264_sock # ""
  /\ InitClient /\ InitCtrl /\ InitListening
  /\ methods = ServeTable
  /\ srv_pc = "accept"
  /\ accepted = 0
  /\ conn = "none"
  /\ data = <<>>
  /\ request = None_
  /\ response = None_
  /\ calls = <<>>
  /\ wire = <<>>
  /\ rpc_exc = ""
  /\ io_error = FALSE
  /\ served = <<>>

NextRpc ==
  \/ rpc_accept(MaxConns)
  \/ rpc_accept_fail
  \/ rpc_recv(WireChunks, MaxReqChunks)
  \/ rpc_recv_eof
  \/ rpc_recv_fail
  \/ rpc_parse
  \/ rpc_send_ok
  \/ rpc_send_fail
  \/ rpc_send_error_fail

SpecRpc == InitServe /\ [][NextRpc]_vars

\* ------------------------------------------------------- claims: streaming

IsPrefix(a, b) == Len(a) <= Len(b) /\ SubSeq(b, 1, Len(a)) = a

\* The frames of a byte string s from 0-based position pos on, by the
\* left-to-right scan: the first FF D8 at or after pos, the first FF D9 at
\* least two bytes after it, the inclusive span, and on from right after it.
RECURSIVE scan_frames(_, _)
scan_frames(s, pos) ==
  LET starts == {i \in pos..(Len(s) - 2) : s[i + 1] = 255 /\ s[i + 2] = 216}
  IN  IF starts = {} THEN <<>>
      ELSE LET st == Min(starts)
               ends == {j \in (st + 2)..(Len(s) - 2) :
                          s[j + 1] = 255 /\ s[j + 2] = 217}
           IN  IF ends = {} THEN <<>>
               ELSE <<SubSeq(s, st + 1, Min(ends) + 2)>>
                      \o scan_frames(s, Min(ends) + 2)

\* The multipart body of a sequence of frames.
RECURSIVE parts(_)
parts(fs) ==
  IF fs = <<>> THEN <<>>
  ELSE PartHeader \o Head(fs) \o PartTrailer \o parts(Tail(fs))

\* C1: the frames read_jpeg_frames has yielded are always a prefix of the
\* frames of the left-to-right scan of the concatenated input, and they are
\* all of them whenever the generator waits for the next chunk or has seen
\* the end of the input: in input order, every frame of a chunk, and no
\* trailing span without an end marker.
C1_FramesAreTheScan ==
  \A r \in Requests :
    path[r] = MJPEG =>
      /\ IsPrefix(frames[r], scan_frames(concat(received[r]), 0))
      /\ (pc[r] = "recv" \/ outcome[r] = "Done")
           => frames[r] = scan_frames(concat(received[r]), 0)

\* C1 witness: one chunk gave two frames and a trailing start marker, and the
\* input ended.
C1_Witness ==
  /\ outcome[1] = "Done"
  /\ Len(received[1]) = 1
  /\ Len(frames[1]) = 2
  /\ buf[1] = SOI

\* C3 as claimed: a request whose upstream connect failed got 503 and nothing
\* else, and no status line is out while the connect is still to come.
C3_ConnectFailureIs503 ==
  \A r \in Requests :
    /\ pc[r] = "connect" => status[r] = <<>>
    /\ raised_by[r] = "connect" => status[r] = <<503>>

\* C6: an MJPEG request whose client write or flush raised broken pipe or
\* connection reset has ended in ClientGone, inside its handler; every other
\* MJPEG request still has all the frames of what its own upstream delivered,
\* each written as a part; and the step that ends the one request changes
\* nothing of any other request.
C6_State ==
  \A r \in Requests :
    (/\ path[r] = MJPEG
     /\ raised_by[r] \in {"write", "flush"}
     /\ exc[r] \in {"BrokenPipeError", "ConnectionResetError"})
    => /\ outcome[r] = "ClientGone"
       /\ pc[r] = "done"
       /\ \A q \in Requests \ {r} :
            (path[q] = MJPEG /\ pc[q] = "recv")
            => /\ frames[q] = scan_frames(concat(received[q]), 0)
               /\ body[q] = parts(frames[q])

OfRequest(q) ==
  <<path[q], pc[q], status[q], ctype[q], body[q], flushed[q], sock[q],
    received[q], buf[q], end[q], frames[q], chunk[q], exc[q], raised_by[q],
    outcome[q]>>

C6_Step ==
  \A r \in Requests :
    (outcome[r] = "" /\ outcome'[r] = "ClientGone")
    => \A q \in Requests \ {r} : OfRequest(q)' = OfRequest(q)

C6_ClientGoneIsIsolated == [](C6_State) /\ [][C6_Step]_vars

\* C6 witness: request 1 lost its client while writing its first frame, and
\* request 2 went on to a second frame, flushed.
C6_Witness ==
  /\ path[1] = MJPEG /\ path[2] = MJPEG
  /\ outcome[1] = "ClientGone" /\ raised_by[1] = "write"
  /\ Len(flushed[1]) = 0
  /\ pc[2] = "recv" /\ Len(flushed[2]) = 2

\* C7: the body of an MJPEG response is a prefix of the parts of the frames
\* extracted so far, in order; the i-th flush came right after the i-th part;
\* at most the last frame's part is unflushed; and whenever the next chunk is
\* read from upstream, or the stream has ended, every frame's part is written
\* and flushed.
C7_PartsPerFrame ==
  \A r \in Requests :
    path[r] = MJPEG =>
      /\ IsPrefix(body[r], parts(frames[r]))
      /\ Len(flushed[r]) <= Len(frames[r])
      /\ Len(frames[r]) <= Len(flushed[r]) + 1
      /\ \A i \in 1..Len(flushed[r]) :
           flushed[r][i] = Len(parts(SubSeq(frames[r], 1, i)))
      /\ IsPrefix(parts(SubSeq(frames[r], 1, Len(flushed[r]))), body[r])
      /\ (pc[r] = "recv" \/ outcome[r] = "Done")
           => /\ body[r] = parts(frames[r])
              /\ Len(flushed[r]) = Len(frames[r])

\* C7 witness: two frames written and flushed, the next read pending.
C7_Witness ==
  /\ path[1] = MJPEG
  /\ pc[1] = "recv"
  /\ Len(frames[1]) = 2
  /\ Len(flushed[1]) = 2
  /\ frames[1][1] # frames[1][2]

\* C8: the body of a snapshot or H264 response is always a prefix of the
\* concatenation of the chunks received, in arrival order; a zero-length read
\* ends the sequence without an exception; and at Done the body is the whole
\* upstream byte sequence.
C8_RelayIsPrefix ==
  \A r \in Requests :
    path[r] \in {SNAPSHOT, H264} =>
      /\ IsPrefix(body[r], concat(received[r]))
      /\ outcome[r] = "Done"
           => /\ body[r] = concat(received[r])
              /\ exc[r] = ""

\* C8 witness: an H264 and a snapshot response, each Done after two
\* different chunks.
C8_Witness ==
  /\ path[1] = H264 /\ path[2] = SNAPSHOT
  /\ \A r \in Requests :
       /\ outcome[r] = "Done"
       /\ Len(received[r]) = 2
       /\ received[r][1] # received[r][2]

\* C9: at most one status line per request, and a request that ended in
\* ClientGone or UpstreamError had sent 200 and nothing after it.
C9_OneStatusLine ==
  \A r \in Requests :
    /\ Len(status[r]) <= 1
    /\ outcome[r] \in {"ClientGone", "UpstreamError"} => status[r] = <<200>>

\* C9 witness: one request ended in UpstreamError on a failed read and the
\* other in ClientGone on a failed write, both after body bytes.
C9_Witness ==
  /\ outcome[1] = "UpstreamError" /\ raised_by[1] = "recv"
  /\ outcome[2] = "ClientGone" /\ raised_by[2] = "write"
  /\ body[1] # <<>> /\ body[2] # <<>>

\* C10 as claimed: once the handler of a request has ended, its upstream
\* socket is not open.
C10_ClosedWhenRequestEnds ==
  \A r \in Requests : pc[r] = "done" => sock[r] # "open"


\* ------------------------------------------------------- claims: JSON-RPC

error_code(resp) ==
  IF dict_has(resp, "error")
  THEN dict_get(dict_get(resp, "error", None_), "code", None_)
  ELSE None_

error_message(resp) ==
  IF dict_has(resp, "error")
  THEN dict_get(dict_get(resp, "error", None_), "message", None_)
  ELSE None_

\* The validation checks a request fails, numbered in the documented order:
\* 1 object, 2 jsonrpc, 3 method is a string, 4 method is registered,
\* 5 params type. Each is judged on its own, whatever the others say.
failed_checks(table, req) ==
  IF req[1] # "dict" THEN {1}
  ELSE
    LET m == dict_get(req, "method", None_)
        p == dict_get(req, "params", Dict(<<>>))
    IN  {k \in 2..5 :
           \/ k = 2 /\ dict_get(req, "jsonrpc", None_) # Str("2.0")
           \/ k = 3 /\ m[1] # "str"
           \/ k = 4 /\ m[1] = "str" /\ ~dict_has(table, m[2])
           \/ k = 5 /\ p[1] \notin {"dict", "list", "null"}}

expected_error(k, req) ==
  IF k = 1 THEN <<Num(-32600), Str("Invalid Request")>>
  ELSE IF k = 2
  THEN <<Num(-32600), Str("Invalid Request: jsonrpc must be '2.0'")>>
  ELSE IF k = 3
  THEN <<Num(-32600), Str("Invalid Request: method must be string")>>
  ELSE IF k = 4
  THEN <<Num(-32601),
         Str("Method not found: " \o dict_get(req, "method", None_)[2])>>
  ELSE <<Num(-32602), Str("Invalid params: must be dict, list, or null")>>

\* C2: handle_request answers with the error of the first check, in the order
\* object / jsonrpc / method type / method registered / params type, that the
\* request fails, without calling a handler; the handler is called exactly
\* once, and only, when the request passes all five.
C2_FirstFailingCheckWins ==
  srv_pc = "returned" =>
    LET f == failed_checks(methods, request)
    IN  IF f # {}
        THEN /\ calls = <<>>
             /\ <<error_code(response), error_message(response)>>
                  = expected_error(Min(f), request)
        ELSE /\ Len(calls) = 1
             /\ error_code(response) \in {None_, Num(-32000), Num(-32603)}

\* A request that names an unregistered method and carries string params is
\* answered -32601, not -32602.
C2_Witness ==
  /\ srv_pc = "returned"
  /\ failed_checks(methods, request) = {4, 5}
  /\ error_code(response) = Num(-32601)

\* C4 (refuted): a connection whose bytes do not parse as one JSON document,
\* and on which no socket call failed, is answered with exactly one line, a
\* -32700 error with id null.
C4_UnparseableIsParseError ==
  (/\ srv_pc = "accept" /\ conn = "closed"
   /\ data # <<>> /\ ~io_error
   /\ ~(decodable(data) /\ loads(data).ok))
    => /\ Len(wire) = 1
       /\ error_code(wire[1][1]) = Num(-32700)
       /\ dict_get(wire[1][1], "id", Absent) = None_

\* The state the claim describes when the bytes are text: one -32700 line.
C4_Witness ==
  /\ srv_pc = "accept" /\ conn = "closed"
  /\ data # <<>> /\ ~io_error
  /\ decodable(data) /\ ~loads(data).ok
  /\ Len(wire) = 1
  /\ error_code(wire[1][1]) = Num(-32700)

C5_InConnection ==
  srv_pc \in {"recv", "parse", "send", "send_parse_error", "send_error"}

\* Each step of the serving loop: while a connection is being served the loop
\* does not stop; a newly caught exception leads to the error reply for that
\* connection; after the error reply, sent or not, the connection is closed
\* and the loop is accepting again; what was recorded for earlier
\* connections does not change.
C5_Step ==
  /\ C5_InConnection => srv_pc' # "stopped"
  /\ (rpc_exc' # rpc_exc /\ rpc_exc' # "") =>
       (srv_pc' = "send_error" /\ conn' = "open")
  /\ srv_pc = "send_error" => (srv_pc' = "accept" /\ conn' = "closed")
  /\ Len(served') >= Len(served)
  /\ SubSeq(served', 1, Len(served)) = served

\* C5: an exception while serving one connection is confined to it: the
\* serving loop goes on accepting connections, and only a failure of accept
\* itself ends it.
C5_LoopSurvivesConnectionErrors ==
  /\ [][C5_Step]_vars
  /\ [](srv_pc = "stopped" => (conn # "open" /\ ~C5_InConnection))
  /\ []((srv_pc = "accept" /\ accepted < MaxConns) => ENABLED rpc_accept(MaxConns))

\* The first connection ended in an exception and the second one was served
\* its result.
C5_Witness ==
  /\ Len(served) = 2
  /\ served[1][2] # ""
  /\ served[2] = <<1, "">>
  /\ wire = << <<result_response(Str("pong"), Num(1)), "\n">> >>

\* --------------------------------------------- claims: connect failures

\* The built-in exceptions that are subclasses of ConnectionError.
\* FileNotFoundError is an OSError but not one of them.
ConnectionError ==
  {"BrokenPipeError", "ConnectionAbortedError", "ConnectionRefusedError",
   "ConnectionResetError"}

\* C11 (refuted): whenever the initial connect of read_socket fails, the
\* exception is a ConnectionError, and the handler's outcome differs from the
\* outcome of a request whose upstream failed after the connect (in recv).
C11_ConnectFailureIsConnectionError ==
  \A r \in Requests :
    raised_by[r] = "connect" =>
      /\ exc[r] \in ConnectionError
      /\ \A q \in Requests :
           raised_by[q] = "recv" => outcome[q] # outcome[r]

\* ------------------------------------- handle_request, direct and served

\* run() up to the serving loop: the stale socket file is removed, the
\* socket is bound and listening.
rpc_run ==
  /\ srv_pc = "init"
  /\ srv_pc' = "accept"
  /\ lsock' = "listening"
  /\ sock_file' = "bound"
  /\ UNCHANGED <<ctrlVars, cliVars, clients, httpVars, methods, accepted, conn, data, request, response,
                 calls, wire, rpc_exc, io_error, served>>

\* Values a caller passes to handle_request, or a client sends as one line.
DispatchValues ==
  NonObjects \cup WireValues \cup
  {request_object(Str("2.0"), Num(7), Absent, Num(8)),
   request_object(Absent, Str("ping"), Absent, Str("a")),
   request_object(Str("2.0"), Str("ping"), Num(5), Num(9)),
   request_object(Str("2.0"), Str("echo"), List(<<Num(1)>>), Num(10)),
   request_object(Str("2.0"), Str("echo"), List(<<>>), Num(10))}

DispatchChunks ==
  {<<"text", v, "\n">> : v \in DispatchValues}
  \cup {<<"junk", None_, "\n">>, <<"bin", None_, "\n">>}

InitDispatch ==
  /\ InitHttp /\ jpeg_sock # "" /\ mjpeg_sock # "" /\ h264_sock # ""
  /\ InitClient /\ InitCtrl /\ InitNotListening
  /\ methods = ServeTable
  /\ srv_pc = "init"
  /\ accepted = 0
  /\ conn = "none"
  /\ data = <<>>
  /\ request = None_
  /\ response = None_
  /\ calls = <<>>
  /\ wire = <<>>
  /\ rpc_exc = ""
  /\ io_error = FALSE
  /\ served = <<>>

NextDispatch ==
  \/ \E req \in DispatchValues : call_handle_request(req)
  \/ rpc_run
  \/ rpc_accept(MaxConns)
  \/ rpc_accept_fail
  \/ rpc_recv(DispatchChunks, MaxReqChunks)
  \/ rpc_recv_eof
  \/ rpc_recv_fail
  \/ rpc_parse
  \/ rpc_send_ok
  \/ rpc_send_fail
  \/ rpc_send_error_fail

\* A JSONRPCServer with its methods registered, either called directly or run.
SpecDispatch == InitDispatch /\ [][NextDispatch]_vars

\* A connection of the serving loop is over, and no socket call on it failed.
served_cleanly == srv_pc = "accept" /\ conn = "closed" /\ ~io_error

\* The connection carried one well-formed JSON value.
parsed == data # <<>> /\ decodable(data) /\ loads(data).ok

response_id(resp) == dict_get(resp, "id", Absent)

\* C12 (as stated, refuted): handle_request on a value that is not an object
\* yields an error response with code -32700 and id null.
C12_NonObjectIsParseError ==
  (srv_pc = "returned" /\ request[1] # "dict") =>
    (error_code(response) = Num(-32700) /\ response_id(response) = None_)

\* C12 (amended): handle_request never yields -32700; a value that is not an
\* object gets -32600 with id null. -32700 with id null comes only from the
\* serving loop, for bytes that are text but not one JSON document.
C12_ParseErrorOnlyFromLoop ==
  /\ srv_pc = "returned" =>
       /\ error_code(response) # Num(-32700)
       /\ request[1] # "dict" =>
            (error_code(response) = Num(-32600)
               /\ response_id(response) = None_)
  /\ \A i \in 1..Len(wire) :
       error_code(wire[i][1]) = Num(-32700) =>
         /\ decodable(data) /\ ~loads(data).ok
         /\ response_id(wire[i][1]) = None_

\* handle_request was called directly with an array.
C12_Witness ==
  /\ srv_pc = "returned"
  /\ request[1] = "list"
  /\ error_code(response) = Num(-32600)

\* C13: a well-formed JSON value that is not an object (array, string,
\* number, boolean, null) is answered with code -32600 "Invalid Request" and
\* id null, and no handler is invoked: by handle_request called directly, and
\* by the serving loop as the one line written to the connection.
C13_NonObjectIsInvalidRequest ==
  LET invalid == error_response(-32600, Str("Invalid Request"), None_)
  IN  /\ (srv_pc = "returned" /\ request[1] # "dict") =>
           (response = invalid /\ calls = <<>>)
      /\ (served_cleanly /\ parsed /\ loads(data).value[1] # "dict") =>
           (wire = << <<invalid, "\n">> >> /\ calls = <<>>)

\* The serving loop answered a connection that sent the JSON value `true`.
C13_Witness ==
  /\ served_cleanly
  /\ data = << <<"text", Bool("true"), "\n">> >>
  /\ Len(wire) = 1
  /\ error_code(wire[1][1]) = Num(-32600)
  /\ response_id(wire[1][1]) = None_

\* --------------------------------------------- claims: request validation

\* request.get(key): the member, or None when it is absent.
member_of(req, key) == dict_get(req, key, None_)

\* handle_request was called directly with a request object.
returned_object == srv_pc = "returned" /\ request[1] = "dict"

\* The request object has jsonrpc "2.0" and a string method.
well_headed ==
  /\ member_of(request, "jsonrpc") = Str("2.0")
  /\ member_of(request, "method")[1] = "str"

\* C14: a request object whose jsonrpc member is missing or not "2.0", or
\* whose method member is missing or not a string, is answered with code
\* -32600 and the request's id (null when absent); no handler is invoked.
C14_BadHeaderIsInvalidRequest ==
  (returned_object /\ ~well_headed) =>
    /\ error_code(response) = Num(-32600)
    /\ response_id(response) = member_of(request, "id")
    /\ ~dict_has(response, "result")
    /\ calls = <<>>

\* {"jsonrpc": "1.0", "method": "ping", "id": 1} with ping registered.
C14_Witness ==
  /\ returned_object
  /\ dict_has(methods, "ping")
  /\ request = request_object(Str("1.0"), Str("ping"), Absent, Num(1))
  /\ response =
       error_response(-32600, Str("Invalid Request: jsonrpc must be '2.0'"),
                      Num(1))

\* C15: a request object with jsonrpc "2.0" and a string method that is not
\* in the method table is answered with code -32601 and the request's id; no
\* handler is invoked.
C15_UnregisteredIsMethodNotFound ==
  (/\ returned_object /\ well_headed
   /\ ~dict_has(methods, member_of(request, "method")[2])) =>
    /\ error_code(response) = Num(-32601)
    /\ response_id(response) = member_of(request, "id")
    /\ calls = <<>>

\* {"jsonrpc": "2.0", "method": "missing", "id": 1} with a non-empty table.
C15_Witness ==
  /\ returned_object
  /\ methods[2] # <<>>
  /\ request = request_object(Str("2.0"), Str("missing"), Absent, Num(1))
  /\ response = error_response(-32601, Str("Method not found: missing"), Num(1))

\* C16: a request with jsonrpc "2.0" and a registered method whose params
\* member is present and is a string, a number or a boolean is answered with
\* code -32602 and the request's id; the handler is not invoked.
C16_BadParamsIsInvalidParams ==
  (/\ returned_object /\ well_headed
   /\ dict_has(methods, member_of(request, "method")[2])
   /\ dict_has(request, "params")
   /\ member_of(request, "params")[1] \in {"str", "num", "bool"}) =>
    /\ error_code(response) = Num(-32602)
    /\ response_id(response) = member_of(request, "id")
    /\ calls = <<>>

\* echo is registered and is sent params 5 with id "a".
C16_Witness ==
  /\ returned_object
  /\ dict_get(methods, "echo", "") = "echo"
  /\ request = request_object(Str("2.0"), Str("echo"), Num(5), Str("a"))
  /\ error_code(response) = Num(-32602)
  /\ response_id(response) = Str("a")

\* ------------------------------------------------ claims: handler dispatch

\* The request object passed every validation check of handle_request.
dispatched == returned_object /\ failed_checks(methods, request) = {}

C18_OutcomeDecidesResponse ==
  dispatched =>
    /\ Len(calls) = 1
    /\ calls[1][1] = member_of(request, "method")[2]
    /\ LET out == handler_result(dict_get(methods, calls[1][1], ""),
                                 calls[1][2])
           id == member_of(request, "id")
       IN  IF out.raised
           THEN response =
                  error_response(-32603, Str("Internal error: " \o out.msg), id)
           ELSE IF out.value[1] = "dict" /\ dict_has(out.value, "error")
           THEN response =
                  error_response(-32000, member_of(out.value, "error"), id)
           ELSE response = result_response(out.value, id)

\* The handler of ping returned {"error": "bad"}: -32000 "bad", id echoed.
C18_Witness ==
  /\ dispatched
  /\ dict_get(methods, "ping", "") = "apperr"
  /\ request = request_object(Str("2.0"), Str("ping"), Absent, Num(1))
  /\ response = error_response(-32000, Str("bad"), Num(1))

\* ------------------------------------------------ claims: response shape

ErrorCodes ==
  {Num(-32700), Num(-32600), Num(-32601), Num(-32602), Num(-32603),
   Num(-32000)}

\* {jsonrpc, result, id} or {jsonrpc, error: {code, message}, id}.
well_formed(resp) ==
  /\ resp[1] = "dict"
  /\ dict_get(resp, "jsonrpc", Absent) = Str("2.0")
  /\ dict_has(resp, "id")
  /\ dict_has(resp, "result") # dict_has(resp, "error")
  /\ dict_has(resp, "error") =>
       LET err == dict_get(resp, "error", None_)
       IN  /\ err[1] = "dict"
           /\ dict_has(err, "code") /\ dict_has(err, "message")
           /\ dict_get(err, "code", None_) \in ErrorCodes

\* C19: every response returned by handle_request, and every line the
\* serving loop writes, has jsonrpc "2.0", an id member and exactly one of
\* result and error; an error has a code and a message, the code being one of
\* -32700, -32600, -32601, -32602, -32603, -32000.
C19_ResponsesAreWellFormed ==
  /\ srv_pc = "returned" => well_formed(response)
  /\ \A i \in 1..Len(wire) : well_formed(wire[i][1]) /\ wire[i][2] = "\n"

\* The loop wrote the -32603 line after json.dumps rejected a handler result.
C19_Witness ==
  /\ served_cleanly
  /\ rpc_exc = "TypeError"
  /\ Len(wire) = 1
  /\ error_code(wire[1][1]) = Num(-32603)

\* C20 (refuted): a request that is a JSON object is answered with its own
\* id member (null when absent), by handle_request and on the connection the
\* serving loop read it from.
C20_IdIsEchoed ==
  /\ returned_object => response_id(response) = member_of(request, "id")
  /\ (served_cleanly /\ parsed /\ loads(data).value[1] = "dict") =>
       /\ Len(wire) = 1
       /\ response_id(wire[1][1]) = member_of(loads(data).value, "id")

\* --------------------------------------------- JSONRPCClient against run()

\* The (method, params) arguments of the calls.
CallArgs ==
  {<<"echo", Dict(<< <<"x", Num(1)>> >>)>>,
   <<"echo", Dict(<< <<"error", Str("e")>> >>)>>,
   <<"echo", Dict(<< <<"t", Tuple(<<Num(1)>>)>> >>)>>,
   <<"echo", Dict(<< <<"o", Unserializable>> >>)>>,
   <<"echo", Dict(<<>>)>>,
   <<"echo", None_>>,
   <<"ping", None_>>,
   <<"fail", None_>>,
   <<"apperr", None_>>,
   <<"missing", None_>>}

InitCall ==
  /\ InitHttp /\ jpeg_sock # "" /\ mjpeg_sock # "" /\ h264_sock # ""
  /\ InitClient /\ InitCtrl /\ InitListening
  /\ methods = ServeTable
  /\ srv_pc = "accept"
  /\ accepted = 0
  /\ conn = "none"
  /\ data = <<>>
  /\ request = None_
  /\ response = None_
  /\ calls = <<>>
  /\ wire = <<>>
  /\ rpc_exc = ""
  /\ io_error = FALSE
  /\ served = <<>>

\* One caller makes its calls one after the other, each once the server is
\* done with the previous connection; the server reads what that call sent.
NextCall ==
  \/ /\ accepted = Len(clients) /\ conn # "open"
     /\ \E a \in CallArgs : cli_call(a[1], a[2], MaxCalls)
  \/ cli_connect_ok
  \/ cli_connect_fail
  \/ cli_send_ok
  \/ cli_send_fail
  \/ cli_recv
  \/ cli_recv_fail
  \/ accepted < Len(clients) /\ rpc_accept(MaxCalls)
  \/ rpc_accept_fail
  \/ /\ srv_pc = "recv" /\ clients[accepted] = "sent" /\ data = <<>>
     /\ rpc_recv({<<"text", json_roundtrip(cli_request), "\n">>}, MaxReqChunks)
  \/ /\ srv_pc = "recv" /\ clients[accepted] = "connected" /\ cli_pc = "idle"
     /\ rpc_recv_eof
  \/ rpc_recv_fail
  \/ rpc_parse
  \/ rpc_send_ok
  \/ rpc_send_fail
  \/ rpc_send_error_fail

SpecCall == InitCall /\ [][NextCall]_vars

\* ---------------------------------------------------------- claims: client

TransportErrors ==
  ConnectErrors \cup {"BrokenPipeError", "ConnectionResetError", "TypeError"}

\* The latest call ended after parsing the line the server wrote to it.
cli_answered ==
  /\ cli_pc = "idle"
  /\ cli_outcome[1] # "none"
  /\ wire # <<>>
  /\ ~(cli_outcome[1] = "raise" /\ cli_outcome[2] \in TransportErrors)

\* The latest call was call("echo", params) with a params object, answered
\* by the server with no socket call failing on either side.
echo_answered ==
  /\ cli_answered /\ ~io_error
  /\ dict_get(cli_request, "method", None_) = Str("echo")
  /\ cli_params[1] = "dict"

\* C21 (as stated, refuted): call("echo", params) returns a value equal to
\* params, for every params object.
C21_EchoRoundTrip ==
  echo_answered => cli_outcome = <<"return", cli_params>>

\* C21 (amended): call("echo", params) returns a value equal to params for
\* every params object that has no "error" member and that JSON represents
\* as it is (no tuple inside).
C21_EchoRoundTripWithoutError ==
  (/\ echo_answered
   /\ ~dict_has(cli_params, "error")
   /\ json_roundtrip(cli_params) = cli_params) =>
    cli_outcome = <<"return", cli_params>>

\* call("echo", {"x": 1}) returned {"x": 1}.
C21_Witness ==
  /\ echo_answered
  /\ cli_params = Dict(<< <<"x", Num(1)>> >>)
  /\ cli_outcome = <<"return", Dict(<< <<"x", Num(1)>> >>)>>

\* C22: the ids of the requests of successive calls on one client are
\* 1, 2, 3, ...: each call takes the id after the previous call's, whether
\* that call returned or raised.
C22_IdsCountCalls ==
  /\ request_id = Len(cli_ids)
  /\ \A i \in 1..Len(cli_ids) : cli_ids[i] = i

\* The first call raised before sending, the second one returned with id 2.
C22_Witness ==
  /\ cli_ids = <<1, 2>>
  /\ clients = <<"connected", "sent">>
  /\ cli_outcome[1] = "return"

\* C23: every call creates one socket of its own, and that socket is closed
\* when the call has returned or raised, however it ended.
C23_SocketClosedAfterCall ==
  /\ Len(cli_socks) = Len(cli_ids)
  /\ \A i \in 1..Len(cli_socks) :
       cli_socks[i] = IF i = Len(cli_socks) /\ cli_pc # "idle"
                      THEN "open" ELSE "closed"

\* A call failed to connect and its socket is closed.
C23_Witness ==
  /\ cli_pc = "idle"
  /\ cli_outcome = <<"raise", "FileNotFoundError">>
  /\ cli_socks[Len(cli_socks)] = "closed"

\* C24: call() returns the result member exactly when the response object
\* has no error member; for an error member (an object, as every JSON-RPC
\* error is) it raises an error carrying that error's code and message.
C24_ResultOrRaise ==
  cli_answered =>
    LET resp == json_roundtrip(wire[1][1])
        error == dict_get(resp, "error", None_)
    IN  IF dict_has(resp, "error")
        THEN cli_outcome =
               <<"raise", "Exception", dict_get(error, "code", None_),
                 dict_get(error, "message", None_)>>
        ELSE cli_outcome = <<"return", dict_get(resp, "result", None_)>>

\* The handler returned {"error": "bad"}: the call raised with -32000, "bad".
C24_Witness ==
  /\ cli_answered
  /\ cli_outcome = <<"raise", "Exception", Num(-32000), Str("bad")>>

\* ------------------------------------------------- run(), step by step

\* Lines 152-153: a stale file at socket_path is removed.
run_unlink_stale ==
  /\ srv_pc = "init"
  /\ sock_file' = "absent"
  /\ srv_pc' = "socket"
  /\ UNCHANGED <<ctrlVars, cliVars, httpVars, lsock, clients, methods, accepted, conn,
                 data, request, response, calls, wire, rpc_exc, io_error,
                 served>>

\* Line 156: the listening socket is created.
run_socket ==
  /\ srv_pc = "socket"
  /\ lsock' = "open"
  /\ srv_pc' = "bind"
  /\ UNCHANGED <<ctrlVars, cliVars, httpVars, sock_file, clients, methods, accepted,
                 conn, data, request, response, calls, wire, rpc_exc,
                 io_error, served>>

\* Lines 157-159, 161: bind creates the socket file, then listen, chmod and
\* the log call; the try block starts after them.
run_startup_ok ==
  /\ srv_pc \in {"bind", "listen", "chmod", "log"}
  /\ srv_pc' = IF srv_pc = "bind" THEN "listen"
               ELSE IF srv_pc = "listen" THEN "chmod"
               ELSE IF srv_pc = "chmod" THEN "log"
               ELSE "accept"
  /\ sock_file' = IF srv_pc = "bind" THEN "bound" ELSE sock_file
  /\ lsock' = IF srv_pc = "listen" THEN "listening" ELSE lsock
  /\ UNCHANGED <<ctrlVars, cliVars, httpVars, clients, methods, accepted, conn, data,
                 request, response, calls, wire, rpc_exc, io_error, served>>

\* One of them raises (OSError, an exception of log_func, an interrupt):
\* the exception leaves run() before the try whose finally cleans up.
run_startup_fail ==
  /\ srv_pc \in {"bind", "listen", "chmod", "log"}
  /\ srv_pc' = "stopped"
  /\ UNCHANGED <<ctrlVars, cliVars, httpVars, lsnVars, methods, accepted, conn, data,
                 request, response, calls, wire, rpc_exc, io_error, served>>

InitRun ==
  /\ InitHttp /\ jpeg_sock # "" /\ mjpeg_sock # "" /\ h264_sock # ""
  /\ InitClient /\ InitCtrl
  /\ lsock = "none"
  /\ sock_file \in {"absent", "stale"}
  /\ clients = <<>>
  /\ methods = ServeTable
  /\ srv_pc = "init"
  /\ accepted = 0
  /\ conn = "none"
  /\ data = <<>>
  /\ request = None_
  /\ response = None_
  /\ calls = <<>>
  /\ wire = <<>>
  /\ rpc_exc = ""
  /\ io_error = FALSE
  /\ served = <<>>

NextRun ==
  \/ run_unlink_stale
  \/ run_socket
  \/ run_startup_ok
  \/ run_startup_fail
  \/ rpc_accept(MaxConns)
  \/ rpc_accept_fail
  \/ rpc_recv(WireChunks, MaxReqChunks)
  \/ rpc_recv_eof
  \/ rpc_recv_fail
  \/ rpc_parse
  \/ rpc_send_ok
  \/ rpc_send_fail
  \/ rpc_send_error_fail

\* JSONRPCServer.run from its first line.
SpecRun == InitRun /\ [][NextRun]_vars

\* ------------------------------------------------ claims: server lifecycle

\* C25 (refuted): no stale socket file is left once bind is reached, and
\* whenever run() has ended the listening socket is closed and the socket
\* file does not exist.
C25_CleanedUpWhenRunEnds ==
  /\ srv_pc \notin {"init", "stopped"} => sock_file # "stale"
  /\ srv_pc = "stopped" => (lsock = "closed" /\ sock_file = "absent")

\* ------------------------------------------- the serving loop and its peers

\* A peer connects to the listening socket: one that has sent a complete
\* request line ("sent"), or one that sends no newline and stays connected
\* ("stuck"). The connection waits in the backlog until accept returns it.
client_connects(kinds, max_conns) ==
  /\ lsock = "listening"
  /\ Len(clients) < max_conns
  /\ \E k \in kinds : clients' = Append(clients, k)
  /\ UNCHANGED <<ctrlVars, cliVars, httpVars, rpcVars, lsock, sock_file>>

\* The steps the server thread takes by itself once bytes are there: accept
\* a waiting connection, read the line of a peer that sent one, parse, send.
ServerStep ==
  \/ accepted < Len(clients) /\ rpc_accept(MaxConns)
  \/ /\ srv_pc = "recv" /\ clients[accepted] = "sent"
     /\ rpc_recv({<<"text", v, "\n">> : v \in WireValues}, 1)
  \/ rpc_parse
  \/ rpc_send_ok

\* conn.recv on a stuck peer returns the bytes it did send, without newline,
\* and the next conn.recv blocks: no timeout is set on the connection.
StuckPeerStep ==
  /\ srv_pc = "recv" /\ clients[accepted] = "stuck"
  /\ rpc_recv({<<"head", PingRequest, "">>}, 1)

NextPeers ==
  \/ client_connects({"sent", "stuck"}, MaxConns)
  \/ ServerStep
  \/ StuckPeerStep

\* The server thread runs whenever it is not blocked in a system call.
SpecPeers == InitServe /\ [][NextPeers]_vars /\ WF_vars(ServerStep)

\* C26 (refuted): every peer that has connected and sent a complete request
\* eventually has its response written, whatever the other peers do.
C26_CompleteRequestIsAnswered ==
  \A k \in 1..MaxConns :
    (Len(clients) >= k /\ clients[k] = "sent")
      ~> (Len(served) >= k /\ served[k][1] = 1)

\* ------------------------------------------- requests following requests

\* Mutant: the accumulation buffer outlives the request (a shared buffer).
fresh_buf_retained(old) == old

\* buf = b'' (line 30): every call of read_jpeg_frames starts a new buffer.
fresh_buf(old) == <<>>

\* The handler of request r has returned and its socket is gone; the server
\* thread slot takes the next request, with a new handler object, a new
\* generator and a new socket.
new_request(r) ==
  /\ pc[r] = "done"
  /\ sock[r] # "open"
  /\ path' = [path EXCEPT ![r] = ""]
  /\ pc' = [pc EXCEPT ![r] = "idle"]
  /\ status' = [status EXCEPT ![r] = <<>>]
  /\ ctype' = [ctype EXCEPT ![r] = ""]
  /\ body' = [body EXCEPT ![r] = <<>>]
  /\ flushed' = [flushed EXCEPT ![r] = <<>>]
  /\ sock' = [sock EXCEPT ![r] = "none"]
  /\ received' = [received EXCEPT ![r] = <<>>]
  /\ buf' = [buf EXCEPT ![r] = fresh_buf(buf[r])]
  /\ end' = [end EXCEPT ![r] = -1]
  /\ frames' = [frames EXCEPT ![r] = <<>>]
  /\ chunk' = [chunk EXCEPT ![r] = <<>>]
  /\ exc' = [exc EXCEPT ![r] = ""]
  /\ raised_by' = [raised_by EXCEPT ![r] = ""]
  /\ outcome' = [outcome EXCEPT ![r] = ""]
  /\ UNCHANGED <<ctrlVars, cliVars, lsnVars, rpcVars, cfgVars>>

NextShare ==
  \/ Next
  \/ \E r \in Requests : new_request(r)

\* The HTTP server taking request after request on each of its threads.
SpecShare == Init /\ [][NextShare]_vars

\* ------------------------------------------------ claims: request isolation

IsSuffix(a, b) ==
  Len(a) <= Len(b) /\ a = SubSeq(b, Len(b) - Len(a) + 1, Len(b))

\* The upstream side of request r: its connection and what came over it.
Upstream(r) == <<sock[r], received[r], buf[r]>>

\* A request's buffer holds bytes of its own upstream connection only, and a
\* request without a connection has received and buffered nothing.
C27_State ==
  \A r \in Requests :
    /\ IsSuffix(buf[r], concat(received[r]))
    /\ sock[r] = "none" => (received[r] = <<>> /\ buf[r] = <<>>)

\* No step touches the upstream side of two requests, and a connection that
\* was closed is not opened again by the same request.
C27_Step ==
  /\ \A r \in Requests : \A q \in Requests \ {r} :
       ~(Upstream(r)' # Upstream(r) /\ Upstream(q)' # Upstream(q))
  /\ \A r \in Requests : sock[r] = "closed" => sock'[r] # "open"

\* C27: every streaming request opens one upstream connection of its own and
\* buffers only what that connection delivered: simultaneous requests share
\* no connection and no buffered byte, and a later request starts empty.
C27_UpstreamIsPerRequest == [](C27_State) /\ [][C27_Step]_vars

\* Two MJPEG requests stream at once, each with its own open connection and
\* its own, different, buffer.
C27_Witness ==
  /\ path[1] = MJPEG /\ path[2] = MJPEG
  /\ sock[1] = "open" /\ sock[2] = "open"
  /\ buf[1] # <<>> /\ buf[2] # <<>> /\ buf[1] # buf[2]
  /\ IsSuffix(buf[1], concat(received[1]))
  /\ ~IsSuffix(buf[1], concat(received[2]))

\* ------------------------------------------------ claims: request outcomes

\* C28 (refuted): a failed read from the upstream socket ends the request in
\* UpstreamError and a failed write or flush to the HTTP client ends it in
\* ClientGone, whatever the exception is.
C28_FailureIsAttributedToItsSide ==
  \A r \in Requests :
    /\ raised_by[r] = "recv" => outcome[r] = "UpstreamError"
    /\ raised_by[r] \in {"write", "flush"} => outcome[r] = "ClientGone"

\* Request r asked for a media kind whose socket path is not configured.
no_source(r) ==
  \/ path[r] = SNAPSHOT /\ jpeg_sock = ""
  \/ path[r] = MJPEG /\ mjpeg_sock = ""
  \/ path[r] = H264 /\ h264_sock = ""

\* C29: a request for a media kind without a configured source is answered
\* with status 503 and nothing else: no 200, no body byte, no upstream
\* connection, and the handler is done.
C29_NoSourceIs503 ==
  \A r \in Requests :
    no_source(r) =>
      /\ status[r] = <<503>>
      /\ body[r] = <<>>
      /\ sock[r] = "none" /\ received[r] = <<>>
      /\ pc[r] = "done"

\* Request 1 was refused with 503 while request 2 streams from its source.
C29_Witness ==
  /\ no_source(1) /\ status[1] = <<503>>
  /\ ~no_source(2) /\ sock[2] = "open" /\ body[2] # <<>>

\* C30: when the upstream ends inside a frame (the buffer holds a start
\* marker with no end marker after it), the MJPEG request ends in Done
\* without an exception, and what was yielded and written are the complete
\* frames only: no byte of the truncated frame reaches the client.
C30_TruncatedFrameIsDropped ==
  \A r \in Requests :
    (/\ path[r] = MJPEG /\ pc[r] = "done" /\ sock[r] = "closed"
     /\ raised_by[r] = ""
     /\ find(buf[r], SOI, 0) # -1) =>
      /\ outcome[r] = "Done" /\ exc[r] = ""
      /\ frames[r] = scan_frames(concat(received[r]), 0)
      /\ body[r] = parts(frames[r])
      /\ find(buf[r], EOI, find(buf[r], SOI, 0) + 2) = -1

\* Complete frames were sent, then the upstream ended inside the next one.
C30_Witness ==
  /\ path[1] = MJPEG /\ outcome[1] = "Done"
  /\ Len(frames[1]) >= 1
  /\ body[1] = parts(frames[1])
  /\ find(buf[1], SOI, 0) = 0

\* ------------------------------------------- claims: frame extraction, II

\* The inner `while True` loop run to its break on buffer b: the frames it
\* yields on the way and the buffer it leaves (lines 33-43).
RECURSIVE drain(_)
drain(b) ==
  LET s == scan(b)
  IN  IF s.yield
      THEN LET rest == drain(keep_after_frame(s.buf, s.end))
           IN  [frames |-> <<s.frame>> \o rest.frames, buf |-> rest.buf]
      ELSE [frames |-> <<>>, buf |-> s.buf]

\* read_jpeg_frames run to the end of a finite chunk sequence, starting from
\* buffer b: every frame it yields, in order, and the last buffer.
RECURSIVE read_jpeg_frames(_, _)
read_jpeg_frames(chunks, b) ==
  IF chunks = <<>> THEN [frames |-> <<>>, buf |-> b]
  ELSE LET d == drain(b \o Head(chunks))
           rest == read_jpeg_frames(Tail(chunks), d.buf)
       IN  [frames |-> d.frames \o rest.frames, buf |-> rest.buf]

\* Every way of cutting byte string s into non-empty chunks.
RECURSIVE Chunkings(_)
Chunkings(s) ==
  IF s = <<>> THEN {<<>>}
  ELSE UNION {{<<SubSeq(s, 1, k)>> \o t :
                 t \in Chunkings(SubSeq(s, k + 1, Len(s)))} : k \in 1..Len(s)}

\* C31: whenever the generator waits for the next chunk or the input has
\* ended, the frames it has yielded are the frames it yields on every other
\* chunking of the same bytes, the one-chunk and the byte-by-byte chunking
\* included: the frame sequence depends on the concatenated bytes only.
C31_ChunkingIndependent ==
  \A r \in Requests :
    (path[r] = MJPEG /\ (pc[r] = "recv" \/ outcome[r] = "Done")) =>
      \A c \in Chunkings(concat(received[r])) :
        read_jpeg_frames(c, <<>>).frames = frames[r]

\* The start marker and the end marker were both split across chunks, and the
\* frame was found all the same.
C31_Witness ==
  /\ path[1] = MJPEG /\ pc[1] = "recv"
  /\ received[1] = <<<<255>>, <<216, 255>>, <<217>>>>
  /\ frames[1] = <<(<<255, 216, 255, 217>>)>>

\* A frame as the claim describes it: FF D8 first, FF D9 last, at least four
\* bytes, and no FF D9 from offset 2 on before the final one.
jpeg_frame(f) ==
  /\ Len(f) >= 4
  /\ slice(f, 0, 2) = SOI
  /\ slice_from(f, Len(f) - 2) = EOI
  /\ find(f, EOI, 2) = Len(f) - 2

\* The frames fs are slices of byte string s from position pos on, in order
\* and without overlap.
RECURSIVE placed(_, _, _)
placed(fs, s, pos) ==
  \/ fs = <<>>
  \/ \E i \in pos..(Len(s) - Len(Head(fs))) :
       /\ slice(s, i, i + Len(Head(fs))) = Head(fs)
       /\ placed(Tail(fs), s, i + Len(Head(fs)))

\* C32: every frame yielded so far is a frame in that sense, and the frames
\* are consecutive, non-overlapping slices of the bytes received.
C32_FramesAreMarkedSlices ==
  \A r \in Requests :
    path[r] = MJPEG =>
      /\ \A i \in 1..Len(frames[r]) : jpeg_frame(frames[r][i])
      /\ placed(frames[r], concat(received[r]), 0)

\* Junk came before the first frame and between the frames, and a frame holds
\* a D8 byte of its own.
C32_Witness ==
  /\ path[1] = MJPEG
  /\ Len(received[1]) = 1 /\ received[1][1][1] = 7
  /\ frames[1] = <<(<<255, 216, 255, 217>>), (<<255, 216, 216, 255, 217>>)>>

\* ------------------------------------------------ claims: ControlPersistence

\* Mappings save() is called with: integer-valued ones (empty, one and two
\* names, a negative and a zero value), ones holding a bool, a float, a string
\* and a null, one json cannot serialize, and a list in place of a mapping.
Mappings ==
  {Dict(<<>>),
   Dict(<< <<"brightness", Num(5)>> >>),
   Dict(<< <<"contrast", Num(-3)>>, <<"gain", Num(0)>> >>),
   Dict(<< <<"brightness", Num(7)>>, <<"auto", Bool("true")>> >>),
   Dict(<< <<"gain", Float("1.5")>>, <<"mode", Str("manual")>>,
           <<"hue", None_>>, <<"contrast", Num(2)>> >>),
   Dict(<< <<"raw", Unserializable>> >>),
   List(<<Num(1)>>)}

\* A state file found at startup: none, or one left by an earlier run or by
\* somebody's editor.
InitPersistAny ==
  /\ state_dir \in {"missing", "present"}
  /\ state_file \in {<<"absent">>, file_junk, file_text(List(<<>>)),
                     file_text(Dict(<< <<"brightness", Num(1)>> >>))}
  /\ state_dir = "missing" => state_file = <<"absent">>
  /\ per_saved = <<>>
  /\ per_op = ""
  /\ per_loaded = <<"none">>
  /\ per_exc = ""

InitStore ==
  /\ InitHttp /\ jpeg_sock # "" /\ mjpeg_sock # "" /\ h264_sock # ""
  /\ InitRpc /\ InitClient /\ InitNotListening
  /\ InitPersistAny /\ InitThreads /\ InitDevice

NextStore ==
  \/ per_save(Mappings, MaxSaves)
  \/ per_save_fail
  \/ per_load
  \/ per_clear

SpecStore == InitStore /\ [][NextStore]_vars

\* A mapping from names to integers.
int_valued(m) == m[1] = "dict" /\ \A i \in 1..Len(m[2]) : m[2][i][2][1] = "num"

\* C33: a load() that finds no state file returns the empty mapping; and a
\* load() after a save(m) that wrote an integer-valued mapping returns m
\* itself, with no name of any earlier save in it.
C33_SaveLoadRoundTrip ==
  per_op = "load" =>
    /\ state_file = <<"absent">> => per_loaded = Dict(<<>>)
    /\ (per_saved # <<>> /\ int_valued(per_saved[Len(per_saved)]))
         => per_loaded = per_saved[Len(per_saved)]

\* Two integer-valued mappings with different names were saved one after the
\* other, and the load returned the second.
C33_Witness ==
  /\ per_op = "load"
  /\ Len(per_saved) = 2
  /\ per_saved[1] = Dict(<< <<"brightness", Num(5)>> >>)
  /\ per_saved[2] = Dict(<< <<"contrast", Num(-3)>>, <<"gain", Num(0)>> >>)
  /\ per_loaded = per_saved[2]

\* ------------------------------------------------ claims: the serving loop

\* The steps of one connection, in the order the loop may take them.
LoopOrder ==
  {<<"accept", "recv">>, <<"accept", "stopped">>,
   <<"recv", "parse">>, <<"recv", "accept">>, <<"recv", "send_error">>,
   <<"parse", "send">>, <<"parse", "send_parse_error">>,
   <<"parse", "send_error">>,
   <<"send", "accept">>, <<"send", "send_error">>,
   <<"send_parse_error", "accept">>, <<"send_parse_error", "send_error">>,
   <<"send_error", "accept">>}

\* While the loop reads, parses or answers, the one connection it accepted
\* last is open; at accept none is; every earlier one has been closed.
C34_State ==
  /\ srv_pc \in {"recv", "parse", "send", "send_parse_error", "send_error"}
       => conn = "open"
  /\ srv_pc \in {"accept", "stopped"} => conn # "open"
  /\ Len(served) = accepted - (IF conn = "open" THEN 1 ELSE 0)

\* The loop moves along LoopOrder only; a connection is accepted only when
\* none is open; a handler is called only from the parse step, after the
\* read; a line is written only as the last step before the close, and it is
\* the response followed by a newline.
C34_Step ==
  /\ srv_pc' # srv_pc => <<srv_pc, srv_pc'>> \in LoopOrder
  /\ accepted' # accepted => conn # "open" /\ accepted' = accepted + 1
  /\ (calls' # calls /\ calls' # <<>>) => srv_pc = "parse" /\ data # <<>>
  /\ (wire' # wire /\ wire' # <<>>) =>
       /\ srv_pc \in {"send", "send_parse_error", "send_error"}
       /\ wire' = Append(wire, <<response, "\n">>)
       /\ conn' = "closed"
  /\ (srv_pc # "accept" /\ srv_pc' = "accept") => conn' = "closed"

\* C34: the serving loop handles one connection at a time: at most one
\* accepted connection is open, its steps come in the order accept, read,
\* parse and dispatch, write, close, and it is closed on every path before
\* the next accept.
C34_OneConnectionAtATime == [](C34_State) /\ [][C34_Step]_vars

\* The first connection was closed, the second is open and about to be
\* answered.
C34_Witness ==
  /\ accepted = 2 /\ Len(served) = 1
  /\ conn = "open" /\ srv_pc = "send"

\* ------------------------------------------- claims: the method table

\* Requests sent while the table is whatever register_method made it: for a
\* bound and for an unbound name, valid and invalid.
TableValues ==
  {PingRequest,
   request_object(Str("2.0"), Str("echo"), Dict(<< <<"a", Num(1)>> >>), Num(3)),
   request_object(Str("2.0"), Str("nope"), Absent, Num(4)),
   request_object(Str("1.0"), Str("ping"), Absent, Num(2)),
   List(<<>>)}

TableChunks ==
  {<<"text", v, "\n">> : v \in TableValues} \cup {<<"junk", None_, "\n">>}

TableNames == {"ping", "echo"}
TableHandlers == {"pong", "echo", "boom"}

NextTable ==
  \/ \E n \in TableNames, h \in TableHandlers : register_method(n, h)
  \/ \E req \in TableValues : call_handle_request(req)
  \/ rpc_run
  \/ rpc_accept(MaxConns)
  \/ rpc_accept_fail
  \/ rpc_recv(TableChunks, MaxReqChunks)
  \/ rpc_recv_eof
  \/ rpc_recv_fail
  \/ rpc_parse
  \/ rpc_send_ok
  \/ rpc_send_fail
  \/ rpc_send_error_fail

SpecTable == InitHandle /\ [][NextTable]_vars

\* The names bound in table t.
bound(t) == {t[2][i][1] : i \in 1..Len(t[2])}

\* C35: a step that changes the method table is a register_method step: it
\* is taken before the loop starts, it binds one name to the new handler and
\* leaves every other binding as it was, and it dispatches nothing; every
\* step that dispatches a request or moves the serving loop leaves the table,
\* and so the set of bound names, as it was.
C35_Step ==
  /\ methods' # methods =>
       /\ srv_pc = "init" /\ srv_pc' = "init"
       /\ UNCHANGED <<request, response, calls, wire>>
       /\ \E n \in TableNames :
            /\ bound(methods') = bound(methods) \cup {n}
            /\ \A k \in bound(methods) \ {n} :
                 dict_get(methods', k, "") = dict_get(methods, k, "")
  /\ (request' # request \/ calls' # calls \/ srv_pc' # srv_pc) =>
       /\ methods' = methods
       /\ bound(methods') = bound(methods)
C35_TableChangedOnlyByRegister == [][C35_Step]_vars

\* A table of two names made by register_method is being served: a handler
\* was dispatched for the first connection's request.
C35_Witness ==
  /\ bound(methods) = TableNames
  /\ srv_pc = "send" /\ accepted = 1
  /\ calls # <<>>

\* ------------------------------------ claims: the accumulation buffer

\* C36: whenever read_jpeg_frames waits for the next chunk or has seen the
\* end of the input, its buffer either holds no start marker and at most one
\* byte, the last one received, or begins with FF D8 and has no FF D9 from
\* offset 2 on; no byte before a start marker is kept.
C36_BufferShape ==
  \A r \in Requests :
    (path[r] = MJPEG /\ (pc[r] = "recv" \/ outcome[r] = "Done")) =>
      \/ /\ find(buf[r], SOI, 0) = -1
         /\ Len(buf[r]) <= 1
         /\ buf[r] # <<>> => buf[r] = last_byte(concat(received[r]))
      \/ /\ find(buf[r], SOI, 0) = 0
         /\ find(buf[r], EOI, 2) = -1

\* Junk before the start marker was dropped, and the bytes after the marker
\* are kept for the next chunk.
C36_Witness ==
  /\ path[1] = MJPEG /\ pc[1] = "recv"
  /\ Len(received[1]) >= 2 /\ received[1][1][1] = 7
  /\ find(buf[1], SOI, 0) = 0 /\ Len(buf[1]) >= 3

\* ------------------------------------------- claims: the handler's argument

\* C37 (refuted): whenever handle_request has invoked a handler, the argument
\* it passed is an object: the empty object for absent, null and array
\* params, the object itself for object params.
C37_HandlerGetsAnObject ==
  \A i \in 1..Len(calls) :
    /\ calls[i][2][1] = "dict"
    /\ calls[i][2] =
         (IF member_of(request, "params")[1] = "dict"
          THEN member_of(request, "params") ELSE Dict(<<>>))

\* ------------------------------------ claims: one client, several threads

NextThreads ==
  \E t \in Threads :
    \/ thr_load(t, MaxCalls)
    \/ thr_store(t)
    \/ thr_build(t)
    \/ thr_exchange(t)

SpecThreads == InitHandle /\ [][NextThreads]_vars

\* C38 (refuted): the requests that threads sharing one client have sent
\* carry pairwise different ids, and once every call has returned the ids
\* sent are 1..request_id with none skipped.
C38_IdsAreDistinct ==
  /\ \A i, j \in 1..Len(t_sent) : i # j => t_sent[i] # t_sent[j]
  /\ (\A t \in Threads : t_pc[t] = "idle") =>
       {t_sent[i] : i \in 1..Len(t_sent)} = 1..request_id

\* ------------------------------------------- claims: setting controls

\* Changes a caller asks for: valid ones, and ones with an unknown name, a
\* value out of range, and a float, a string, a null and a bool value, first
\* or after a valid entry; a list in place of the mapping.
ChangeSets ==
  {Dict(<<>>),
   Dict(<< <<"brightness", Num(5)>> >>),
   Dict(<< <<"gain", Num(99)>>, <<"flip", Num(1)>> >>),
   Dict(<< <<"brightness", Num(3)>>, <<"zoom", Num(1)>> >>),
   Dict(<< <<"brightness", Num(11)>> >>),
   Dict(<< <<"flip", Num(1)>>, <<"brightness", Num(-1)>> >>),
   Dict(<< <<"brightness", Num(2)>>, <<"gain", Float("1.5")>> >>),
   Dict(<< <<"gain", Str("7")>> >>),
   Dict(<< <<"brightness", None_>> >>),
   Dict(<< <<"brightness", Num(4)>>, <<"flip", Bool("true")>> >>)}

NextSet ==
  \/ \E c \in ChangeSets, l, o \in BOOLEAN : set_controls(c, l, o, MaxSets)
  \/ \E c \in ChangeSets \cup {List(<<Num(1)>>)}, l, o \in BOOLEAN :
       handle_api_v4l2_set(c, l, o, MaxSets)

SpecSet == InitHandle /\ [][NextSet]_vars

\* An entry the claim calls invalid: a name the device does not list, a value
\* that is not an integer, or for set_controls an integer outside the
\* control's known range.
bad_entry(via, kv) ==
  \/ kv[1] \notin allowlist
  \/ kv[2][1] # "num"
  \/ /\ via = "core"
     /\ control_map(kv[1]).ranged
     /\ ~(control_map(kv[1]).min <= kv[2][2] /\ kv[2][2] <= control_map(kv[1]).max)

set_issued == \E i \in 1..Len(ctl_cmds) : ctl_cmds[i][1] = "--set-ctrl"

\* C39 (refuted): after a set call whose changes hold an invalid entry, an
\* error was returned and no set command was run; a set command was run only
\* for changes that are a non-empty mapping of valid entries.
C39_SetIsAllOrNothing ==
  ctl_via # "" =>
    /\ (/\ ctl_changes[1] = "dict"
        /\ \E i \in 1..Len(ctl_changes[2]) : bad_entry(ctl_via, ctl_changes[2][i]))
         => /\ ~set_issued
            /\ ctl_result[1] \in {"error", "400", "500"}
    /\ set_issued =>
         /\ ctl_changes[1] = "dict" /\ ctl_changes[2] # <<>>
         /\ \A i \in 1..Len(ctl_changes[2]) : ~bad_entry(ctl_via, ctl_changes[2][i])

====
